---- MODULE Spec2Model ----
(***************************************************************************)
(* Model of the multi-tier memory agent of crypto_market_LLM_Analysis:     *)
(* the bounded memory stores of src/src/models/memory_systems.py and the   *)
(* decision / feedback cycles and reply parsing of src/src/models/agent.py.*)
(*                                                                         *)
(* Numbers that are floats in the program (confidences, rewards) are kept  *)
(* as integers in hundredths: 0.5 is 50, 0.7 is 70, 1.5 is 150, -3 is -300.*)
(* A text is a sequence of tokens; "\n" is the newline token and " " a     *)
(* blank, the other tokens are words that hold no blank and no newline.    *)
(***************************************************************************)
EXTENDS Integers, Sequences, FiniteSets, TLC

VARIABLES
    sensory_news_items,   \* SensoryMemory.news_items
    sensory_price_data,   \* SensoryMemory.price_data
    short_news_items,     \* ShortTermMemory.news_items
    short_price_data,     \* ShortTermMemory.price_data
    facts,                \* LongTermMemory.facts
    decisions,            \* AutobiographicalMemory.decisions
    thoughts,             \* WorkingMemory.thoughts
    considerations,       \* ProspectiveMemory.considerations
    added,                \* history: per list, every record ever passed to its add, in call order
    pc,                   \* position of the running cycle of the agent
    response_text,        \* the reply text the last LLM invocation of a cycle returned
    decision_id,          \* process_feedback's argument while the cycle runs
    returned,             \* what the last finished cycle handed to its caller: the
                          \* exception it raised, or else the value it returned
    calls,                \* number of make_recommendation / process_feedback calls so far
    capacity,             \* the max_* attributes of the stores
    procedures,           \* ProceduralMemory.procedures
    now,                  \* the reading of the clock, datetime.now()
    file,                 \* the memory file, an Optional: the mapping pickled into it
    feedback_calls,       \* history: the arguments of every process_feedback call, in call order
    saved,                \* history: the stores as they were at the last save_memory call,
                          \* <<>> before the first one
    invocations,          \* history: the llm.invoke calls the cycle in progress, or else
                          \* the last cycle, has made
    response_content      \* react_step's response.content: the reply of the first
                          \* invocation of the last decision cycle that got one

vars == <<sensory_news_items, sensory_price_data, short_news_items, short_price_data,
          facts, decisions, thoughts, considerations, added, pc, response_text,
          decision_id, returned, calls, capacity, procedures, now, file, feedback_calls,
          saved, invocations, response_content>>

env == <<capacity, procedures, file, saved>>

llm == <<invocations, response_content>>

agent == <<pc, response_text, decision_id, returned, calls>>

stores == <<sensory_news_items, sensory_price_data, short_news_items, short_price_data,
            facts, decisions, thoughts, considerations>>

(***************************************************************************)
(* Bounds of the model.  The capacities are constructor arguments of the   *)
(* stores, kept in their max_* attributes; the values the constructors     *)
(* get here are scaled down from the defaults (5, 15, 30, 30, 20, 10, 10)  *)
(* so that overflow happens within a few adds.                             *)
(***************************************************************************)
default_max_size == 2             \* SensoryMemory(max_size)
default_max_news == 3             \* ShortTermMemory(max_news)
default_max_prices == 3           \* ShortTermMemory(max_prices)
default_max_facts == 3            \* LongTermMemory(max_facts)
default_max_decisions == 2        \* AutobiographicalMemory(max_decisions)
default_max_thoughts == 2         \* WorkingMemory(max_thoughts)
default_max_considerations == 2   \* ProspectiveMemory(max_considerations)
MaxAdds == 5              \* add calls in one run of SpecStores, all lists together

\* the max_* attributes the constructors of the stores set
DefaultCapacity ==
    [max_size |-> default_max_size, max_news |-> default_max_news,
     max_prices |-> default_max_prices, max_facts |-> default_max_facts,
     max_decisions |-> default_max_decisions, max_thoughts |-> default_max_thoughts,
     max_considerations |-> default_max_considerations]

max_size == capacity.max_size

max_news == capacity.max_news

max_prices == capacity.max_prices

max_facts == capacity.max_facts

max_decisions == capacity.max_decisions

max_thoughts == capacity.max_thoughts

max_considerations == capacity.max_considerations

\* ProceduralMemory.__init__: the seven fixed procedures, by number
DefaultProcedures == <<"p1", "p2", "p3", "p4", "p5", "p6", "p7">>

StoreNames == {"sensory_news_items", "sensory_price_data", "short_news_items",
               "short_price_data", "facts", "decisions", "thoughts", "considerations"}

None == "None"            \* Python's None

\* An Optional attribute (Decision.outcome, Decision.reward, the memory file)
\* is the sequence of its value, the empty sequence while it is None.
Optional_None == <<>>

is_None(x) == x = Optional_None

Min(a, b) == IF a < b THEN a ELSE b

\* list[-n:] for 0 <= n <= len(list)
LastN(list, n) == SubSeq(list, Len(list) - n + 1, Len(list))

\* list.pop(0): the list without its first element
Pop0(list) == Tail(list)

\* uuid.uuid4() as a string: an identifier no earlier record of that list carries
\* (the number of records of the kind created so far, plus one)
uuid4(kind) == Len(added[kind]) + 1

(***************************************************************************)
(* Typed records (data_structures.py).  A Decision carries its timestamp;  *)
(* the timestamps of the other records and the optional market fields      *)
(* take no part in the operations modelled here.                           *)
(***************************************************************************)
NewsItem(date, text) == [date |-> date, text |-> text]

PriceData(date, asset, price) == [date |-> date, asset |-> asset, price |-> price]

Fact(fact, source, confidence, category) ==
    [fact |-> fact, source |-> source, confidence |-> confidence,
     category |-> category, fact_id |-> uuid4("facts")]

Decision(recommendation, confidence, reasoning) ==
    [recommendation |-> recommendation, confidence |-> confidence,
     reasoning |-> reasoning, timestamp |-> now,
     decision_id |-> uuid4("decisions"), outcome |-> Optional_None, reward |-> Optional_None]

Consideration(text) == [text |-> text, consideration_id |-> uuid4("considerations")]

Thought(content) == [content |-> content, thought_id |-> uuid4("thoughts")]

(***************************************************************************)
(* memory_systems.py: the add methods, as functions from the list before   *)
(* the call to the list after it.                                          *)
(***************************************************************************)
\* add_news, were the newest item removed on overflow: pop() instead of pop(0)
SensoryMemory_add_news_pop_last(news_items, news_item) ==
    LET appended == Append(news_items, news_item)
    IN  IF Len(appended) > max_size
        THEN SubSeq(appended, 1, Len(appended) - 1)
        ELSE appended

SensoryMemory_add_news(news_items, news_item) ==
    LET appended == Append(news_items, news_item)
    IN  IF Len(appended) > max_size THEN Pop0(appended) ELSE appended

SensoryMemory_add_price(price_data, price_item) ==
    LET appended == Append(price_data, price_item)
    IN  IF Len(appended) > max_size THEN Pop0(appended) ELSE appended

ShortTermMemory_add_news(news_items, news_item) ==
    LET appended == Append(news_items, news_item)
    IN  IF Len(appended) > max_news THEN Pop0(appended) ELSE appended

ShortTermMemory_add_price(price_data, price_item) ==
    LET appended == Append(price_data, price_item)
    IN  IF Len(appended) > max_prices THEN Pop0(appended) ELSE appended

\* the insertion step, were the sort not stable: x is put before the elements
\* of its own confidence
RECURSIVE InsertByConfidence_before_equal(_, _)
InsertByConfidence_before_equal(sorted, x) ==
    IF sorted = <<>> THEN <<x>>
    ELSE IF sorted[Len(sorted)].confidence < x.confidence THEN Append(sorted, x)
    ELSE Append(InsertByConfidence_before_equal(SubSeq(sorted, 1, Len(sorted) - 1), x),
                sorted[Len(sorted)])

\* list.sort(key=lambda x: x.confidence): a stable sort, ascending by confidence.
\* InsertByConfidence puts x behind every element whose confidence is not larger.
RECURSIVE InsertByConfidence(_, _)
InsertByConfidence(sorted, x) ==
    IF sorted = <<>> THEN <<x>>
    ELSE IF sorted[Len(sorted)].confidence <= x.confidence THEN Append(sorted, x)
    ELSE Append(InsertByConfidence(SubSeq(sorted, 1, Len(sorted) - 1), x),
                sorted[Len(sorted)])

\* mutant: the sort is lost, so that the oldest fact is the one removed
SortByConfidence_unsorted(list) == list

RECURSIVE SortByConfidence(_)
SortByConfidence(list) ==
    IF list = <<>> THEN <<>>
    ELSE InsertByConfidence(SortByConfidence(SubSeq(list, 1, Len(list) - 1)),
                            list[Len(list)])

\* mutant: the overflow branch is lost
LongTermMemory_add_fact_unbounded(fact_list, fact) == Append(fact_list, fact)

\* add_fact, were the oldest fact removed on overflow as in the other stores
LongTermMemory_add_fact_pop_oldest(fact_list, fact) ==
    LET appended == Append(fact_list, fact)
    IN  IF Len(appended) > max_facts THEN Pop0(appended) ELSE appended

LongTermMemory_add_fact(fact_list, fact) ==
    LET appended == Append(fact_list, fact)
    IN  IF Len(appended) > max_facts
        THEN Pop0(SortByConfidence(appended))
        ELSE appended

\* mutant: the decision is appended and none is ever removed
AutobiographicalMemory_add_decision_unbounded(decision_list, decision) ==
    Append(decision_list, decision)

AutobiographicalMemory_add_decision(decision_list, decision) ==
    LET appended == Append(decision_list, decision)
    IN  IF Len(appended) > max_decisions THEN Pop0(appended) ELSE appended

\* mutant: pop() instead of pop(0), the newest thought is dropped
WorkingMemory_add_thought_pop_last(thought_list, content) ==
    LET appended == Append(thought_list, Thought(content))
    IN  IF Len(appended) > max_thoughts
        THEN SubSeq(appended, 1, Len(appended) - 1)
        ELSE appended

WorkingMemory_add_thought(thought_list, content) ==
    LET appended == Append(thought_list, Thought(content))
    IN  IF Len(appended) > max_thoughts THEN Pop0(appended) ELSE appended

ProspectiveMemory_add_consideration(consideration_list, text) ==
    LET appended == Append(consideration_list, Consideration(text))
    IN  IF Len(appended) > max_considerations THEN Pop0(appended) ELSE appended

(***************************************************************************)
(* Texts.  str.split, str.startswith, str.replace, str.strip and float()   *)
(* on sequences of tokens.                                                 *)
(***************************************************************************)
NL == "\n"

SP == " "

\* text.split('\n'): the pieces between the newlines; '' splits to ['']
RECURSIVE split(_)
split(text) ==
    IF \A i \in DOMAIN text : text[i] # NL THEN <<text>>
    ELSE LET i == CHOOSE k \in DOMAIN text :
                      text[k] = NL /\ \A j \in 1..(k - 1) : text[j] # NL
         IN  <<SubSeq(text, 1, i - 1)>> \o split(SubSeq(text, i + 1, Len(text)))

\* line.startswith(prefix), the prefix being one token
startswith(line, prefix) == Len(line) >= 1 /\ line[1] = prefix

\* line.replace(prefix, ""): every occurrence of the prefix is removed
replace(line, prefix) == SelectSeq(line, LAMBDA t : t # prefix)

\* s.strip(): leading and trailing blanks are removed
RECURSIVE strip(_)
strip(s) ==
    IF s = <<>> THEN s
    ELSE IF s[1] = SP THEN strip(Tail(s))
    ELSE IF s[Len(s)] = SP THEN strip(SubSeq(s, 1, Len(s) - 1))
    ELSE s

\* the numerals of the model and the numbers float() reads from them, in hundredths
Numerals == {"0.3", "0.8", "0.9", "1.5", "-3"}

NumeralValue(t) ==
    CASE t = "0.3" -> 30
      [] t = "0.8" -> 80
      [] t = "0.9" -> 90
      [] t = "1.5" -> 150
      [] t = "-3" -> -300

\* float(s): the number of a string that is one numeral, ValueError for any other
float(s) ==
    IF Len(s) = 1 /\ s[1] \in Numerals
    THEN [raised |-> None, value |-> NumeralValue(s[1])]
    ELSE [raised |-> "ValueError", value |-> None]

(***************************************************************************)
(* agent.py, make_recommendation: the parsing of the second reply.         *)
(***************************************************************************)
\* mutant: a CONFIDENCE value that does not parse is passed over, as in
\* process_feedback, instead of setting 0.7
parse_recommendation_line_pass(locals, line) ==
    IF startswith(line, "RECOMMENDATION:")
    THEN LET extracted_recommendation == strip(replace(line, "RECOMMENDATION:"))
         IN  IF extracted_recommendation \in {<<"Long">>, <<"Short">>}
             THEN [locals EXCEPT !.recommendation = extracted_recommendation]
             ELSE [locals EXCEPT !.recommendation =
                       IF locals.confidence > 50 THEN <<"Long">> ELSE <<"Short">>]
    ELSE IF startswith(line, "CONFIDENCE:")
    THEN LET parsed == float(strip(replace(line, "CONFIDENCE:")))
         IN  IF parsed.raised = None
             THEN [locals EXCEPT !.confidence = parsed.value]
             ELSE locals
    ELSE IF startswith(line, "REASONING:")
    THEN [locals EXCEPT !.reasoning = strip(replace(line, "REASONING:"))]
    ELSE locals

\* lines 131-147: the body of the loop, from the locals before a line to the
\* locals after it
parse_recommendation_line(locals, line) ==
    IF startswith(line, "RECOMMENDATION:")
    THEN LET extracted_recommendation == strip(replace(line, "RECOMMENDATION:"))
         IN  IF extracted_recommendation \in {<<"Long">>, <<"Short">>}
             THEN [locals EXCEPT !.recommendation = extracted_recommendation]
             ELSE [locals EXCEPT !.recommendation =
                       IF locals.confidence > 50 THEN <<"Long">> ELSE <<"Short">>]
    ELSE IF startswith(line, "CONFIDENCE:")
    THEN LET confidence_str == strip(replace(line, "CONFIDENCE:"))
             parsed == float(confidence_str)
         IN  IF parsed.raised = None
             THEN [locals EXCEPT !.confidence = parsed.value]
             ELSE IF parsed.raised = "ValueError"
             THEN [locals EXCEPT !.confidence = 70]
             ELSE [locals EXCEPT !.raised = parsed.raised]
    ELSE IF startswith(line, "REASONING:")
    THEN [locals EXCEPT !.reasoning = strip(replace(line, "REASONING:"))]
    ELSE locals

\* line 130: for line in response_text.split('\n')
RECURSIVE parse_recommendation_lines(_, _)
parse_recommendation_lines(locals, lines) ==
    IF lines = <<>> \/ locals.raised # None THEN locals
    ELSE parse_recommendation_lines(parse_recommendation_line(locals, Head(lines)),
                                    Tail(lines))

\* mutant: the fallback behind the loop is lost
ensure_recommendation_missing(locals) == locals

\* lines 149-151: a decision is always made
ensure_recommendation(locals) ==
    IF locals.raised = None /\ locals.recommendation = <<>>
    THEN [locals EXCEPT !.recommendation =
              IF locals.confidence > 50 THEN <<"Long">> ELSE <<"Short">>]
    ELSE locals

\* lines 126-151: the locals recommendation, confidence, reasoning after the
\* parsing; raised is the exception that left the loop, None when none did
parse_recommendation(text) ==
    ensure_recommendation(
        parse_recommendation_lines(
            [recommendation |-> <<>>, confidence |-> 50, reasoning |-> <<>>,
             raised |-> None],
            split(text)))

\* the history after one more add to the list `kind`
Record(kind, record) == [added EXCEPT ![kind] = Append(@, record)]

(***************************************************************************)
(* SpecStores: the eight lists under arbitrary sequences of add calls,     *)
(* each call one atomic step.                                              *)
(***************************************************************************)
NewsItems == {NewsItem(d, <<"news">>) : d \in 1..2}

PriceItems == {PriceData(d, <<"BTC">>, 100) : d \in 1..2}

Confidences == {10, 20, 50, 90, 99}

TotalAdds == Len(added["sensory_news_items"]) + Len(added["sensory_price_data"])
             + Len(added["short_news_items"]) + Len(added["short_price_data"])
             + Len(added["facts"]) + Len(added["decisions"])
             + Len(added["thoughts"]) + Len(added["considerations"])

InitStores ==
    /\ sensory_news_items = <<>>
    /\ sensory_price_data = <<>>
    /\ short_news_items = <<>>
    /\ short_price_data = <<>>
    /\ facts = <<>>
    /\ decisions = <<>>
    /\ thoughts = <<>>
    /\ considerations = <<>>
    /\ added = [s \in StoreNames |-> <<>>]
    /\ pc = "idle"
    /\ response_text = <<>>
    /\ decision_id = None
    /\ returned = [call |-> "__init__", raised |-> None, value |-> None]
    /\ calls = 0
    /\ capacity = DefaultCapacity
    /\ procedures = DefaultProcedures
    /\ now = 1
    /\ file = Optional_None
    /\ feedback_calls = <<>>
    /\ saved = <<>>
    /\ invocations = 0
    /\ response_content = <<>>

SensoryAddNews ==
    /\ TotalAdds < MaxAdds
    /\ \E item \in NewsItems :
        /\ sensory_news_items' = SensoryMemory_add_news(sensory_news_items, item)
        /\ added' = Record("sensory_news_items", item)
    /\ UNCHANGED <<env, now, llm, feedback_calls, sensory_price_data, short_news_items, short_price_data, facts,
                   decisions, thoughts, considerations, agent>>

SensoryAddPrice ==
    /\ TotalAdds < MaxAdds
    /\ \E item \in PriceItems :
        /\ sensory_price_data' = SensoryMemory_add_price(sensory_price_data, item)
        /\ added' = Record("sensory_price_data", item)
    /\ UNCHANGED <<env, now, llm, feedback_calls, sensory_news_items, short_news_items, short_price_data, facts,
                   decisions, thoughts, considerations, agent>>

ShortTermAddNews ==
    /\ TotalAdds < MaxAdds
    /\ \E item \in NewsItems :
        /\ short_news_items' = ShortTermMemory_add_news(short_news_items, item)
        /\ added' = Record("short_news_items", item)
    /\ UNCHANGED <<env, now, llm, feedback_calls, sensory_news_items, sensory_price_data, short_price_data, facts,
                   decisions, thoughts, considerations, agent>>

ShortTermAddPrice ==
    /\ TotalAdds < MaxAdds
    /\ \E item \in PriceItems :
        /\ short_price_data' = ShortTermMemory_add_price(short_price_data, item)
        /\ added' = Record("short_price_data", item)
    /\ UNCHANGED <<env, now, llm, feedback_calls, sensory_news_items, sensory_price_data, short_news_items, facts,
                   decisions, thoughts, considerations, agent>>

LongTermAddFact ==
    /\ TotalAdds < MaxAdds
    /\ \E c \in Confidences :
        LET fact == Fact(<<"f">>, <<"test">>, c, <<"general">>)
        IN  /\ facts' = LongTermMemory_add_fact(facts, fact)
            /\ added' = Record("facts", fact)
    /\ UNCHANGED <<env, now, llm, feedback_calls, sensory_news_items, sensory_price_data, short_news_items,
                   short_price_data, decisions, thoughts, considerations, agent>>

AutobiographicalAddDecision ==
    /\ TotalAdds < MaxAdds
    /\ LET decision == Decision(<<"Long">>, 50, <<>>)
       IN  /\ decisions' = AutobiographicalMemory_add_decision(decisions, decision)
           /\ added' = Record("decisions", decision)
    /\ UNCHANGED <<env, now, llm, feedback_calls, sensory_news_items, sensory_price_data, short_news_items,
                   short_price_data, facts, thoughts, considerations, agent>>

WorkingAddThought ==
    /\ TotalAdds < MaxAdds
    /\ thoughts' = WorkingMemory_add_thought(thoughts, <<"analysis">>)
    /\ added' = Record("thoughts", Thought(<<"analysis">>))
    /\ UNCHANGED <<env, now, llm, feedback_calls, sensory_news_items, sensory_price_data, short_news_items,
                   short_price_data, facts, decisions, considerations, agent>>

ProspectiveAddConsideration ==
    /\ TotalAdds < MaxAdds
    /\ considerations' = ProspectiveMemory_add_consideration(considerations, <<"consider">>)
    /\ added' = Record("considerations", Consideration(<<"consider">>))
    /\ UNCHANGED <<env, now, llm, feedback_calls, sensory_news_items, sensory_price_data, short_news_items,
                   short_price_data, facts, decisions, thoughts, agent>>

NextStores ==
    \/ SensoryAddNews
    \/ SensoryAddPrice
    \/ ShortTermAddNews
    \/ ShortTermAddPrice
    \/ LongTermAddFact
    \/ AutobiographicalAddDecision
    \/ WorkingAddThought
    \/ ProspectiveAddConsideration

SpecStores == InitStores /\ [][NextStores]_vars

(***************************************************************************)
(* Properties of the stores under add calls.                               *)
(***************************************************************************)

\* C1: in every state reached by add calls, no list holds more records than
\* the capacity of its store.
C1_CapacityBound ==
    /\ Len(sensory_news_items) <= max_size
    /\ Len(sensory_price_data) <= max_size
    /\ Len(short_news_items) <= max_news
    /\ Len(short_price_data) <= max_prices
    /\ Len(facts) <= max_facts
    /\ Len(decisions) <= max_decisions
    /\ Len(thoughts) <= max_thoughts
    /\ Len(considerations) <= max_considerations

\* a list of the long-term store has overflowed and is full
C1_Witness ==
    /\ Len(added["facts"]) > max_facts
    /\ Len(facts) = max_facts

KeepsLast(list, kind, C) ==
    list = LastN(added[kind], Min(Len(added[kind]), C))

\* C2: each FIFO list holds exactly the last min(n, C) records added to it,
\* in insertion order.
C2_FifoKeepsLastAdded ==
    /\ KeepsLast(sensory_news_items, "sensory_news_items", max_size)
    /\ KeepsLast(sensory_price_data, "sensory_price_data", max_size)
    /\ KeepsLast(short_news_items, "short_news_items", max_news)
    /\ KeepsLast(short_price_data, "short_price_data", max_prices)
    /\ KeepsLast(decisions, "decisions", max_decisions)
    /\ KeepsLast(thoughts, "thoughts", max_thoughts)
    /\ KeepsLast(considerations, "considerations", max_considerations)

\* working memory has overflowed twice: the two oldest thoughts are gone
C2_Witness ==
    /\ Len(added["thoughts"]) >= max_thoughts + 2
    /\ Len(thoughts) = max_thoughts
    /\ thoughts[1] = added["thoughts"][Len(added["thoughts"]) - max_thoughts + 1]

Count(list, v) == Cardinality({i \in DOMAIN list : list[i].confidence = v})

\* C3: the confidences of the stored facts are, as a multiset, the min(n, C)
\* highest confidences of all n facts added: every stored confidence was
\* added, and no dropped confidence is higher than a stored one.
C3_KeepsHighestConfidences ==
    /\ Len(facts) = Min(Len(added["facts"]), max_facts)
    /\ \A v \in Confidences : Count(facts, v) <= Count(added["facts"], v)
    /\ \A v, w \in Confidences :
          (Count(facts, v) < Count(added["facts"], v) /\ Count(facts, w) > 0) => v <= w

\* two facts more than the capacity were added, the one evicted last was not
\* the oldest one (the example 0.9, 0.2, 0.5, 0.99, 0.1 at capacity 3 is one)
C3_Witness ==
    /\ Len(added["facts"]) >= max_facts + 2
    /\ \E f \in {facts[i] : i \in DOMAIN facts} : f.fact_id = 1
    /\ \E k \in DOMAIN added["facts"] :
          added["facts"][k].confidence < added["facts"][1].confidence

Pos(fact) == CHOOSE k \in DOMAIN added["facts"] : added["facts"][k] = fact

\* C4: the surviving facts are stored in their original relative insertion
\* order: of two stored facts, the one added earlier comes first.
C4_SurvivorsKeepInsertionOrder ==
    \A i, j \in DOMAIN facts : i < j => Pos(facts[i]) < Pos(facts[j])

(***************************************************************************)
(* agent.py: the decision cycle and the feedback cycle.  A cycle is        *)
(* suspended in each llm.invoke; the reply, or the failure, of the         *)
(* invocation is the step that resumes it.                                 *)
(***************************************************************************)
MaxCalls == 3             \* make_recommendation / process_feedback calls in one run of SpecAgent
MaxLines == 3             \* lines of a reply text in SpecParse

\* "\n".join(lines)
RECURSIVE JoinLines(_)
JoinLines(lines) ==
    IF Len(lines) = 1 THEN lines[1]
    ELSE lines[1] \o <<NL>> \o JoinLines(Tail(lines))

\* update_outcome, were the newest decision updated when none has the id
AutobiographicalMemory_update_outcome_or_last(decision_list, id, outcome, reward) ==
    LET matches == {i \in DOMAIN decision_list : decision_list[i].decision_id = id}
    IN  IF decision_list = <<>> THEN decision_list
        ELSE LET i == IF matches = {} THEN Len(decision_list)
                      ELSE CHOOSE k \in matches : \A j \in matches : k <= j
             IN  [decision_list EXCEPT ![i].outcome = <<outcome>>, ![i].reward = <<reward>>]

\* update_outcome, were the reward written and the outcome not
AutobiographicalMemory_update_outcome_reward_only(decision_list, id, outcome, reward) ==
    LET matches == {i \in DOMAIN decision_list : decision_list[i].decision_id = id}
    IN  IF matches = {} THEN decision_list
        ELSE LET i == CHOOSE k \in matches : \A j \in matches : k <= j
             IN  [decision_list EXCEPT ![i].reward = <<reward>>]

\* update_outcome, were an outcome once written never overwritten
AutobiographicalMemory_update_outcome_once(decision_list, id, outcome, reward) ==
    LET matches == {i \in DOMAIN decision_list : decision_list[i].decision_id = id}
    IN  IF matches = {} THEN decision_list
        ELSE LET i == CHOOSE k \in matches : \A j \in matches : k <= j
             IN  IF ~is_None(decision_list[i].outcome) THEN decision_list
                 ELSE [decision_list EXCEPT ![i].outcome = <<outcome>>, ![i].reward = <<reward>>]

\* AutobiographicalMemory.update_outcome: the first decision with the id gets
\* the outcome and the reward; no decision with the id, nothing happens
AutobiographicalMemory_update_outcome(decision_list, id, outcome, reward) ==
    LET matches == {i \in DOMAIN decision_list : decision_list[i].decision_id = id}
    IN  IF matches = {} THEN decision_list
        ELSE LET i == CHOOSE k \in matches : \A j \in matches : k <= j
             IN  [decision_list EXCEPT ![i].outcome = <<outcome>>, ![i].reward = <<reward>>]

\* the body of the loop, were a statement once found never overwritten
parse_fact_line_keep_first(locals, line) ==
    IF startswith(line, "NEW FACT:")
    THEN IF locals.fact_text # <<>> THEN locals
         ELSE [locals EXCEPT !.fact_text = strip(replace(line, "NEW FACT:"))]
    ELSE IF startswith(line, "CATEGORY:")
    THEN [locals EXCEPT !.category = strip(replace(line, "CATEGORY:"))]
    ELSE IF startswith(line, "CONFIDENCE:")
    THEN LET parsed == float(strip(replace(line, "CONFIDENCE:")))
         IN  IF parsed.raised = None
             THEN [locals EXCEPT !.confidence = parsed.value]
             ELSE IF parsed.raised = "ValueError"
             THEN locals
             ELSE [locals EXCEPT !.raised = parsed.raised]
    ELSE locals

\* the body of the loop, were a CONFIDENCE value that does not parse to set
\* 0.7 as in make_recommendation
parse_fact_line_fallback(locals, line) ==
    IF startswith(line, "NEW FACT:")
    THEN [locals EXCEPT !.fact_text = strip(replace(line, "NEW FACT:"))]
    ELSE IF startswith(line, "CATEGORY:")
    THEN [locals EXCEPT !.category = strip(replace(line, "CATEGORY:"))]
    ELSE IF startswith(line, "CONFIDENCE:")
    THEN LET parsed == float(strip(replace(line, "CONFIDENCE:")))
         IN  IF parsed.raised = None
             THEN [locals EXCEPT !.confidence = parsed.value]
             ELSE [locals EXCEPT !.confidence = 70]
    ELSE locals

\* process_feedback, lines 191-199: the body of the loop
parse_fact_line(locals, line) ==
    IF startswith(line, "NEW FACT:")
    THEN [locals EXCEPT !.fact_text = strip(replace(line, "NEW FACT:"))]
    ELSE IF startswith(line, "CATEGORY:")
    THEN [locals EXCEPT !.category = strip(replace(line, "CATEGORY:"))]
    ELSE IF startswith(line, "CONFIDENCE:")
    THEN LET parsed == float(strip(replace(line, "CONFIDENCE:")))
         IN  IF parsed.raised = None
             THEN [locals EXCEPT !.confidence = parsed.value]
             ELSE IF parsed.raised = "ValueError"
             THEN locals
             ELSE [locals EXCEPT !.raised = parsed.raised]
    ELSE locals

\* process_feedback, line 190: for line in response_text.split('\n')
RECURSIVE parse_fact_lines(_, _)
parse_fact_lines(locals, lines) ==
    IF lines = <<>> \/ locals.raised # None THEN locals
    ELSE parse_fact_lines(parse_fact_line(locals, Head(lines)), Tail(lines))

\* process_feedback, lines 186-199: the locals fact_text, category, confidence
parse_fact(text) ==
    parse_fact_lines(
        [fact_text |-> <<>>, category |-> <<"general">>, confidence |-> 50,
         raised |-> None],
        split(text))

\* make_recommendation is called, were working memory not cleared
make_recommendation_call_without_clear ==
    /\ pc = "idle"
    /\ calls < MaxCalls
    /\ calls' = calls + 1
    /\ pc' = "analyzing"
    /\ invocations' = 1
    /\ now' = now + 1
    /\ UNCHANGED <<env, response_content, feedback_calls, stores, added,
                   response_text, decision_id, returned>>

\* make_recommendation is called: working memory is cleared, react_step builds
\* the first prompt and invokes the LLM
make_recommendation_call ==
    /\ pc = "idle"
    /\ calls < MaxCalls
    /\ calls' = calls + 1
    /\ thoughts' = <<>>
    /\ pc' = "analyzing"
    /\ invocations' = 1
    /\ now' = now + 1
    /\ UNCHANGED <<env, response_content, feedback_calls, sensory_news_items, sensory_price_data, short_news_items,
                   short_price_data, facts, decisions, considerations, added,
                   response_text, decision_id, returned>>

\* the first invocation returns `content`: react_step appends the reply as a thought,
\* make_recommendation builds the second prompt and invokes the LLM
analysis_reply(content) ==
    /\ pc = "analyzing"
    /\ response_content' = content
    /\ thoughts' = WorkingMemory_add_thought(thoughts, content)
    /\ added' = Record("thoughts", Thought(content))
    /\ pc' = "recommending"
    /\ invocations' = 2
    /\ UNCHANGED <<env, now, feedback_calls, sensory_news_items, sensory_price_data, short_news_items,
                   short_price_data, facts, decisions, considerations,
                   response_text, decision_id, returned, calls>>

\* an invocation raises, were the annotation of the feedback cycle taken back
llm_fails_rolls_back ==
    /\ pc \in {"analyzing", "recommending", "learning"}
    /\ pc' = "idle"
    /\ returned' = [call |-> IF pc = "learning" THEN "process_feedback"
                              ELSE "make_recommendation",
                     raised |-> "LLMError", value |-> None]
    /\ decision_id' = None
    /\ decisions' =
          IF pc = "learning"
          THEN [i \in DOMAIN decisions |->
                   IF decisions[i].decision_id = decision_id
                   THEN [decisions[i] EXCEPT !.outcome = Optional_None,
                                             !.reward = Optional_None]
                   ELSE decisions[i]]
          ELSE decisions
    /\ UNCHANGED <<env, now, llm, feedback_calls, sensory_news_items, sensory_price_data,
                   short_news_items, short_price_data, facts, thoughts, considerations,
                   added, response_text, calls>>

\* an invocation of a cycle raises: nothing catches it
llm_fails ==
    /\ pc \in {"analyzing", "recommending", "learning"}
    /\ pc' = "idle"
    /\ returned' = [call |-> IF pc = "learning" THEN "process_feedback"
                              ELSE "make_recommendation",
                     raised |-> "LLMError", value |-> None]
    /\ decision_id' = None
    /\ UNCHANGED <<env, now, llm, feedback_calls, stores, added, response_text, calls>>

\* the second invocation returns `text`: the rest of make_recommendation
recommendation_reply(text) ==
    /\ pc = "recommending"
    /\ response_text' = text
    /\ pc' = "idle"
    /\ LET locals == parse_recommendation(text)
       IN  IF locals.raised # None
           THEN /\ returned' = [call |-> "make_recommendation",
                                 raised |-> locals.raised, value |-> None]
                /\ UNCHANGED <<decisions, added>>
           ELSE LET decision == Decision(locals.recommendation, locals.confidence,
                                         locals.reasoning)
                IN  /\ decisions' = AutobiographicalMemory_add_decision(decisions, decision)
                    /\ added' = Record("decisions", decision)
                    /\ returned' = [call |-> "make_recommendation", raised |-> None,
                                     value |-> decision]
    /\ UNCHANGED <<env, now, llm, feedback_calls, sensory_news_items, sensory_price_data, short_news_items,
                   short_price_data, facts, thoughts, considerations,
                   decision_id, calls>>

\* process_feedback is called, were the consideration added before the LLM
\* is invoked
process_feedback_call_considers_first(id, outcome, reward) ==
    /\ pc = "idle"
    /\ calls < MaxCalls
    /\ calls' = calls + 1
    /\ decisions' = AutobiographicalMemory_update_outcome(decisions, id, outcome, reward)
    /\ considerations' = ProspectiveMemory_add_consideration(considerations, <<"outcome">>)
    /\ added' = Record("considerations", Consideration(<<"outcome">>))
    /\ feedback_calls' = Append(feedback_calls,
                                [decision_id |-> id, outcome |-> outcome, reward |-> reward])
    /\ decision_id' = id
    /\ pc' = "learning"
    /\ invocations' = 1
    /\ now' = now + 1
    /\ UNCHANGED <<env, response_content, sensory_news_items, sensory_price_data, short_news_items,
                   short_price_data, facts, thoughts, response_text, returned>>

\* process_feedback is called, were it to return at once when no stored
\* Decision has the id
process_feedback_call_returns_unmatched(id, outcome, reward) ==
    /\ pc = "idle"
    /\ calls < MaxCalls
    /\ calls' = calls + 1
    /\ decisions' = AutobiographicalMemory_update_outcome(decisions, id, outcome, reward)
    /\ feedback_calls' = Append(feedback_calls,
                                [decision_id |-> id, outcome |-> outcome, reward |-> reward])
    /\ now' = now + 1
    /\ IF \E i \in DOMAIN decisions : decisions[i].decision_id = id
       THEN /\ decision_id' = id
            /\ pc' = "learning"
            /\ invocations' = 1
            /\ UNCHANGED returned
       ELSE /\ decision_id' = None
            /\ pc' = "idle"
            /\ invocations' = 0
            /\ returned' = [call |-> "process_feedback", raised |-> None, value |-> None]
    /\ UNCHANGED <<env, response_content, sensory_news_items, sensory_price_data,
                   short_news_items, short_price_data, facts, thoughts, considerations,
                   added, response_text>>

\* process_feedback is called: the outcome is written, the feedback prompt is
\* built and the LLM invoked
process_feedback_call(id, outcome, reward) ==
    /\ pc = "idle"
    /\ calls < MaxCalls
    /\ calls' = calls + 1
    /\ decisions' = AutobiographicalMemory_update_outcome(decisions, id, outcome, reward)
    /\ feedback_calls' = Append(feedback_calls,
                                [decision_id |-> id, outcome |-> outcome, reward |-> reward])
    /\ decision_id' = id
    /\ pc' = "learning"
    /\ invocations' = 1
    /\ now' = now + 1
    /\ UNCHANGED <<env, response_content, sensory_news_items, sensory_price_data, short_news_items,
                   short_price_data, facts, thoughts, considerations, added,
                   response_text, returned>>

\* the invocation of the feedback cycle returns `text`: the rest of process_feedback
feedback_reply(text) ==
    /\ pc = "learning"
    /\ response_text' = text
    /\ pc' = "idle"
    /\ decision_id' = None
    /\ LET locals == parse_fact(text)
       IN  IF locals.raised # None
           THEN /\ returned' = [call |-> "process_feedback",
                                 raised |-> locals.raised, value |-> None]
                /\ UNCHANGED <<facts, considerations, added>>
           ELSE IF locals.fact_text # <<>>
           THEN LET new_fact == Fact(locals.fact_text,
                                     <<"Feedback on decision", decision_id>>,
                                     locals.confidence, locals.category)
                    consideration == <<"Consider the outcome of similar situations to decision",
                                       decision_id, locals.fact_text>>
                IN  /\ facts' = LongTermMemory_add_fact(facts, new_fact)
                    /\ considerations' =
                           ProspectiveMemory_add_consideration(considerations, consideration)
                    /\ added' = [added EXCEPT
                                   !["facts"] = Append(@, new_fact),
                                   !["considerations"] = Append(@, Consideration(consideration))]
                    /\ returned' = [call |-> "process_feedback", raised |-> None,
                                     value |-> text]
           ELSE /\ returned' = [call |-> "process_feedback", raised |-> None,
                                     value |-> text]
                /\ UNCHANGED <<facts, considerations, added>>
    /\ UNCHANGED <<env, now, llm, feedback_calls, sensory_news_items, sensory_price_data, short_news_items,
                   short_price_data, decisions, thoughts, calls>>

(***************************************************************************)
(* SpecParse: a fresh agent whose first decision cycle is suspended in its *)
(* second invocation; the invocation returns any reply text of at most     *)
(* MaxLines lines over DecisionLines.                                       *)
(***************************************************************************)
DecisionLines ==
    {<<"RECOMMENDATION:">> \o v :
        v \in {<<>>, <<SP, "Long">>, <<SP, "Short">>, <<SP, "Hold">>}}
    \cup {<<"CONFIDENCE:">> \o v :
        v \in {<<>>, <<SP, "0.9">>, <<SP, "0.3">>, <<SP, "0.8">>, <<SP, "1.5">>,
               <<SP, "-3">>, <<SP, "high">>}}
    \cup {<<"REASONING:">> \o v :
        v \in {<<SP, "market", SP, "flat">>, <<SP, "uptrend">>}}
    \cup {<<>>, <<"Long">>, <<SP, "RECOMMENDATION:", SP, "Long">>}

Texts(lineset, n) ==
    {JoinLines(ls) : ls \in UNION {[1..k -> lineset] : k \in 1..n}}

DecisionReplies == Texts(DecisionLines, MaxLines)

InitParse ==
    /\ sensory_news_items = <<>>
    /\ sensory_price_data = <<>>
    /\ short_news_items = <<>>
    /\ short_price_data = <<>>
    /\ facts = <<>>
    /\ decisions = <<>>
    /\ thoughts = <<[content |-> <<"analysis">>, thought_id |-> 1]>>
    /\ considerations = <<>>
    /\ added = [s \in StoreNames |->
                  IF s = "thoughts" THEN <<[content |-> <<"analysis">>, thought_id |-> 1]>>
                  ELSE <<>>]
    /\ pc = "recommending"
    /\ response_text = <<>>
    /\ decision_id = None
    /\ returned = [call |-> "__init__", raised |-> None, value |-> None]
    /\ calls = 1
    /\ capacity = DefaultCapacity
    /\ procedures = DefaultProcedures
    /\ now = 1
    /\ file = Optional_None
    /\ feedback_calls = <<>>
    /\ saved = <<>>
    /\ invocations = 2
    /\ response_content = <<"analysis">>

ParseReply ==
    /\ pc = "recommending"
    /\ \E text \in DecisionReplies : recommendation_reply(text)

NextParse == ParseReply

SpecParse == InitParse /\ [][NextParse]_vars

(***************************************************************************)
(* SpecAgent: at most MaxCalls decision and feedback cycles of one agent,  *)
(* the LLM returning any of a few reply texts or failing.                  *)
(***************************************************************************)
AgentReplies ==
    {<<>>,
     JoinLines(<< <<"RECOMMENDATION:", SP, "Long">>, <<"CONFIDENCE:", SP, "0.8">>,
                  <<"REASONING:", SP, "uptrend">> >>),
     JoinLines(<< <<"RECOMMENDATION:", SP, "Hold">>, <<"CONFIDENCE:", SP, "0.9">>,
                  <<"REASONING:", SP, "market", SP, "flat">> >>),
     JoinLines(<< <<"CONFIDENCE:", SP, "1.5">>, <<"RECOMMENDATION:", SP, "Short">> >>),
     JoinLines(<< <<"CONFIDENCE:", SP, "-3">> >>),
     JoinLines(<< <<"CONFIDENCE:", SP, "high">>, <<"REASONING:", SP, "uptrend">> >>)}

FactReplies ==
    {<<>>,
     JoinLines(<< <<"NEW FACT:", SP, "fees", SP, "matter">>, <<"CATEGORY:", SP, "risk">>,
                  <<"CONFIDENCE:", SP, "0.9">> >>),
     JoinLines(<< <<"NEW FACT:", SP, "fees", SP, "matter">>, <<"CONFIDENCE:", SP, "1.5">> >>),
     JoinLines(<< <<"CONFIDENCE:", SP, "-3">>, <<"NEW FACT:", SP, "trend">>,
                  <<"CONFIDENCE:", SP, "high">> >>),
     JoinLines(<< <<"NEW FACT:", SP>>, <<"CONFIDENCE:", SP, "0.3">> >>),
     JoinLines(<< <<"NEW FACT:", SP, "trend">>, <<"NEW FACT:">> >>),
     JoinLines(<< <<"NEW FACT:", SP, "NEW FACT:">> >>)}

Feedbacks == {[outcome |-> <<"profit">>, reward |-> 100],
              [outcome |-> <<"loss">>, reward |-> -100]}

MakeRecommendation == make_recommendation_call

AnalysisReply == analysis_reply(<<"analysis">>)

RecommendationReply ==
    /\ pc = "recommending"
    /\ \E text \in AgentReplies : recommendation_reply(text)

ProcessFeedback ==
    /\ pc = "idle"
    /\ \E id \in 0..Len(added["decisions"]), fb \in Feedbacks :
        process_feedback_call(id, fb.outcome, fb.reward)

FeedbackReply ==
    /\ pc = "learning"
    /\ \E text \in FactReplies : feedback_reply(text)

LlmFails == llm_fails

NextAgent ==
    \/ MakeRecommendation
    \/ AnalysisReply
    \/ RecommendationReply
    \/ ProcessFeedback
    \/ FeedbackReply
    \/ LlmFails

SpecAgent == InitStores /\ [][NextAgent]_vars

(***************************************************************************)
(* Properties of the parsing of the second reply (SpecParse) and of the    *)
(* cycles (SpecAgent).                                                     *)
(***************************************************************************)
Long == <<"Long">>

Short == <<"Short">>

ReplyLines == split(response_text)

\* the lines of the reply that carry the prefix, by position
LinesWith(prefix) ==
    {i \in DOMAIN ReplyLines : ReplyLines[i] # <<>> /\ ReplyLines[i][1] = prefix}

\* the value a prefixed line carries: the rest of the line, trimmed
ValueOf(i) == strip(Tail(ReplyLines[i]))

Last(S) == CHOOSE i \in S : \A j \in S : j <= i

\* the decision cycle has ended by returning a Decision
DecisionReturned == pc = "idle" /\ calls > 0 /\ returned.raised = None

\* C5: for every reply text the parsing completes without raising, the
\* Decision returned has recommendation Long or Short, it is the one stored,
\* and no stored Decision has another recommendation.
C5_RecommendationLongOrShort ==
    /\ \A i \in DOMAIN decisions : decisions[i].recommendation \in {Long, Short}
    /\ pc = "idle" =>
          /\ returned.raised = None
          /\ returned.value.recommendation \in {Long, Short}
          /\ decisions = <<returned.value>>

\* a reply with a RECOMMENDATION line of value Hold and no other has been parsed
C5_Witness ==
    /\ DecisionReturned
    /\ LinesWith("RECOMMENDATION:") # {}
    /\ \A i \in LinesWith("RECOMMENDATION:") : ValueOf(i) = <<"Hold">>
    /\ Len(decisions) = 1

\* C6: every stored Decision has a confidence in [0, 1].
C6_DecisionConfidenceInRange ==
    \A i \in DOMAIN decisions :
        decisions[i].confidence >= 0 /\ decisions[i].confidence <= 100

\* C7: every stored Fact has a confidence in [0, 1].
C7_FactConfidenceInRange ==
    \A i \in DOMAIN facts : facts[i].confidence >= 0 /\ facts[i].confidence <= 100

\* C8: when no RECOMMENDATION line of the reply carries Long or Short, the
\* recommendation follows from the confidence of the whole reply, Long if
\* it is above 0.5 and else Short, whatever the order of the lines; the reply
\* "RECOMMENDATION: Hold / CONFIDENCE: 0.9 / REASONING: market flat" gives
\* Long, 0.9, "market flat".
C8_FallbackFromFinalConfidence ==
    (/\ DecisionReturned
     /\ \A i \in LinesWith("RECOMMENDATION:") : ValueOf(i) \notin {Long, Short})
    => /\ returned.value.recommendation =
              IF returned.value.confidence > 50 THEN Long ELSE Short
       /\ response_text = JoinLines(<< <<"RECOMMENDATION:", SP, "Hold">>,
                                       <<"CONFIDENCE:", SP, "0.9">>,
                                       <<"REASONING:", SP, "market", SP, "flat">> >>)
          => returned.value = [returned.value EXCEPT
                                  !.recommendation = Long, !.confidence = 90,
                                  !.reasoning = <<"market", SP, "flat">>]

\* C9: a RECOMMENDATION line with an invalid value is discarded: when some
\* RECOMMENDATION line carries Long or Short, the recommendation is a value
\* that such a line carries, wherever the invalid lines stand.
C9_InvalidRecommendationDiscarded ==
    (/\ DecisionReturned
     /\ \E i \in LinesWith("RECOMMENDATION:") : ValueOf(i) \in {Long, Short})
    => \E i \in LinesWith("RECOMMENDATION:") :
          /\ ValueOf(i) \in {Long, Short}
          /\ returned.value.recommendation = ValueOf(i)

\* C10: the confidence is 0.5 when the reply has no CONFIDENCE line, 0.7 when
\* the value of the last CONFIDENCE line is no number, and that number when
\* it is one; the parsing raises nothing.
C10_ConfidenceOfLastLine ==
    pc = "idle" =>
        /\ returned.raised = None
        /\ returned.value.confidence =
              IF LinesWith("CONFIDENCE:") = {} THEN 50
              ELSE LET v == ValueOf(Last(LinesWith("CONFIDENCE:")))
                   IN  IF Len(v) = 1 /\ v[1] \in Numerals THEN NumeralValue(v[1]) ELSE 70

\* a numeric CONFIDENCE line is followed by one that is no number
C10_Witness ==
    /\ DecisionReturned
    /\ \E i, j \in LinesWith("CONFIDENCE:") :
          /\ i < j
          /\ j = Last(LinesWith("CONFIDENCE:"))
          /\ ValueOf(i) = <<"0.9">>
          /\ ValueOf(j) = <<"high">>
    /\ returned.value.confidence = 70

(***************************************************************************)
(* The feedback cycle (SpecAgent).                                         *)
(***************************************************************************)
\* the step is the end of a feedback cycle whose invocation returned a reply
FeedbackCompletes ==
    pc = "learning" /\ pc' = "idle" /\ returned'.raised = None

\* the lines of a text that carry the prefix NEW FACT:, by position
FactLines(text) ==
    {i \in DOMAIN split(text) : split(text)[i] # <<>> /\ split(text)[i][1] = "NEW FACT:"}

\* the statement of line i of a text: the rest of the line, trimmed
StatementOf(text, i) == strip(Tail(split(text)[i]))

\* the statement of line i of a text with every NEW FACT: in it removed
StatementWithoutPrefixes(text, i) == strip(replace(split(text)[i], "NEW FACT:"))

\* the cycle adds one Fact and one Consideration, or none of either
AddsFactAndConsideration ==
    /\ Len(added'["facts"]) = Len(added["facts"]) + 1
    /\ Len(added'["considerations"]) = Len(added["considerations"]) + 1

AddsNothing ==
    /\ added' = added
    /\ facts' = facts
    /\ considerations' = considerations

\* C11, as stated: a feedback cycle adds a Fact and a Consideration exactly
\* when the reply has a NEW FACT line with a non-empty statement, else it
\* changes neither store; it adds at most one of each and returns the reply.
C11_FactIffSomeStatement ==
    [][FeedbackCompletes =>
         /\ AddsFactAndConsideration <=>
                \E i \in FactLines(response_text') : StatementOf(response_text', i) # <<>>
         /\ AddsFactAndConsideration \/ AddsNothing
         /\ returned'.value = response_text'
      ]_vars

\* C11, amended: a feedback cycle adds a Fact and a Consideration exactly
\* when the reply has a NEW FACT line and the last such line, with every
\* NEW FACT: removed and trimmed, is non-empty; that text is the statement of
\* the Fact; else neither store is changed; the reply is returned.
C11_FactIffLastStatement ==
    [][FeedbackCompletes =>
         LET text == response_text'
             stated == /\ FactLines(text) # {}
                       /\ StatementWithoutPrefixes(text, Last(FactLines(text))) # <<>>
         IN  /\ AddsFactAndConsideration <=> stated
             /\ AddsFactAndConsideration \/ AddsNothing
             /\ stated => added'["facts"][Len(added'["facts"])].fact =
                              StatementWithoutPrefixes(text, Last(FactLines(text)))
             /\ returned'.value = text
      ]_vars

\* a feedback cycle has ended on a reply with two NEW FACT lines, the first
\* with a statement and the last without, and no Fact was ever added
C11_Witness ==
    /\ pc = "idle"
    /\ returned.call = "process_feedback"
    /\ returned.raised = None
    /\ Cardinality(FactLines(response_text)) = 2
    /\ StatementOf(response_text, 1) # <<>>
    /\ added["facts"] = <<>>

(***************************************************************************)
(* The decision cycle end to end (SpecAgent).                              *)
(***************************************************************************)
UptrendReply ==
    JoinLines(<< <<"RECOMMENDATION:", SP, "Long">>, <<"CONFIDENCE:", SP, "0.8">>,
                 <<"REASONING:", SP, "uptrend">> >>)

\* the step is the second invocation of a decision cycle returning UptrendReply
UptrendReplyReturns ==
    /\ pc = "recommending"
    /\ pc' = "idle"
    /\ returned'.raised # "LLMError"
    /\ response_text' = UptrendReply

ReturnsUptrendDecision ==
    /\ returned'.raised = None
    /\ returned'.value.recommendation = Long
    /\ returned'.value.confidence = 80
    /\ returned'.value.reasoning = <<"uptrend">>

\* C12, as stated: from any memory state, after the analysis reply and the
\* reply RECOMMENDATION: Long / CONFIDENCE: 0.8 / REASONING: uptrend the cycle
\* returns the Decision Long, 0.8, uptrend and the number of decisions in
\* Autobiographical Memory is one more than before.
C12_LengthIncreasesByOne ==
    [][UptrendReplyReturns =>
         /\ ReturnsUptrendDecision
         /\ Len(decisions') = Len(decisions) + 1
      ]_vars

\* C12, amended: the cycle returns the Decision Long, 0.8, uptrend, stores it
\* as the newest decision, and the number of decisions is one more than
\* before while below max_decisions and stays max_decisions once there, the
\* oldest decision leaving.
C12_DecisionStoredWithinCapacity ==
    [][UptrendReplyReturns =>
         /\ ReturnsUptrendDecision
         /\ Len(decisions') = Min(Len(decisions) + 1, max_decisions)
         /\ decisions'[Len(decisions')] = returned'.value
         /\ decisions' = LastN(Append(decisions, returned'.value), Len(decisions'))
      ]_vars

\* the third cycle has returned the Decision of UptrendReply with
\* Autobiographical Memory already full: its length is still max_decisions
C12_Witness ==
    /\ pc = "idle"
    /\ returned.call = "make_recommendation"
    /\ returned.raised = None
    /\ response_text = UptrendReply
    /\ Len(added["decisions"]) > max_decisions
    /\ Len(decisions) = max_decisions
    /\ decisions[Len(decisions)] = returned.value

(***************************************************************************)
(* AutobiographicalMemory.get_formatted.  A number is in hundredths, its   *)
(* text is the sequence of the tokens of its decimal numeral.              *)
(***************************************************************************)
\* the nearest integer to num / den, a tie going to the even one
round_half_even(num, den) ==
    LET q == num \div den
        r == num % den
    IN  IF 2 * r < den THEN q
        ELSE IF 2 * r > den THEN q + 1
        ELSE IF q % 2 = 0 THEN q ELSE q + 1

\* f"{num / den:.2f}"
format_2f(num, den) ==
    LET x == round_half_even(num, den)
        a == IF x < 0 THEN -x ELSE x
    IN  (IF num < 0 THEN <<"-">> ELSE <<>>)
        \o <<ToString(a \div 100), ".", ToString((a % 100) \div 10), ToString(a % 10)>>

\* list.sort(key=lambda x: x.timestamp, reverse=True) is stable: records of
\* equal timestamp keep their order.  InsertByTimestamp puts x behind every
\* element whose timestamp is not smaller.
RECURSIVE InsertByTimestamp(_, _)
InsertByTimestamp(sorted, x) ==
    IF sorted = <<>> THEN <<x>>
    ELSE IF sorted[Len(sorted)].timestamp >= x.timestamp THEN Append(sorted, x)
    ELSE Append(InsertByTimestamp(SubSeq(sorted, 1, Len(sorted) - 1), x),
                sorted[Len(sorted)])

RECURSIVE SortByTimestampReverse(_)
SortByTimestampReverse(list) ==
    IF list = <<>> THEN <<>>
    ELSE InsertByTimestamp(SortByTimestampReverse(SubSeq(list, 1, Len(list) - 1)),
                           list[Len(list)])

\* lines 179-184: the text of one decision
format_decision(decision) ==
    LET reward_str == IF ~is_None(decision.reward) THEN format_2f(decision.reward[1], 1)
                      ELSE <<"Unknown">>
    IN  <<"- Decision: ">> \o decision.recommendation \o <<NL>>
        \o <<"  Reasoning: ">> \o decision.reasoning \o <<NL>>
        \o <<"  Outcome: ">> \o decision.outcome[1] \o <<NL>>
        \o <<"  Reward: ">> \o reward_str \o <<NL, NL>>

RECURSIVE format_decisions(_)
format_decisions(list) ==
    IF list = <<>> THEN <<>>
    ELSE format_decision(Head(list)) \o format_decisions(Tail(list))

\* sum(d.reward or 0 for d in list)
RECURSIVE sum_rewards(_)
sum_rewards(list) ==
    IF list = <<>> THEN 0
    ELSE (IF is_None(Head(list).reward) THEN 0 ELSE Head(list).reward[1])
         + sum_rewards(Tail(list))

\* lines 188-191, with the list the average is taken over
format_overall(list) ==
    <<"Overall performance: Average reward ">> \o format_2f(sum_rewards(list), Len(list))
    \o <<" across ", ToString(Len(list)), " decisions.", NL>>

\* the view, were the average taken over the decisions shown
AutobiographicalMemory_get_formatted_average_of_shown(decision_list) ==
    LET with_outcomes == SelectSeq(decision_list, LAMBDA d : ~is_None(d.outcome))
        decisions_with_outcomes == SortByTimestampReverse(with_outcomes)
        shown == SubSeq(decisions_with_outcomes, 1, Min(3, Len(decisions_with_outcomes)))
    IN  [output |->
            <<"## AUTOBIOGRAPHICAL MEMORY (PAST DECISIONS & OUTCOMES)", NL, NL>>
            \o (IF decisions_with_outcomes # <<>>
                THEN <<"### Recent Decisions and Outcomes:", NL>> \o format_decisions(shown)
                ELSE <<>>)
            \o (IF Len(decisions_with_outcomes) >= 3 THEN format_overall(shown) ELSE <<>>),
         decisions |-> decision_list]

\* AutobiographicalMemory.get_formatted: the text returned and self.decisions
\* after the call; the list filtered and sorted is a new one
AutobiographicalMemory_get_formatted(decision_list) ==
    LET with_outcomes == SelectSeq(decision_list, LAMBDA d : ~is_None(d.outcome))
        decisions_with_outcomes == SortByTimestampReverse(with_outcomes)
        shown == SubSeq(decisions_with_outcomes, 1, Min(3, Len(decisions_with_outcomes)))
    IN  [output |->
            <<"## AUTOBIOGRAPHICAL MEMORY (PAST DECISIONS & OUTCOMES)", NL, NL>>
            \o (IF decisions_with_outcomes # <<>>
                THEN <<"### Recent Decisions and Outcomes:", NL>> \o format_decisions(shown)
                ELSE <<>>)
            \o (IF Len(decisions_with_outcomes) >= 3
                THEN format_overall(decisions_with_outcomes) ELSE <<>>),
         decisions |-> decision_list]

(***************************************************************************)
(* SpecAuto: one AutobiographicalMemory, constructed with either of two    *)
(* capacities, under add_decision, update_outcome and get_formatted calls. *)
(* The caller makes the decisions, with any timestamp of Timestamps.       *)
(***************************************************************************)
MaxAutoAdds == 4          \* add_decision calls in one run of SpecAuto
Timestamps == 1..2        \* timestamps of the decisions of SpecAuto
large_max_decisions == 4  \* AutobiographicalMemory(max_decisions), the larger capacity

InitAuto ==
    /\ sensory_news_items = <<>>
    /\ sensory_price_data = <<>>
    /\ short_news_items = <<>>
    /\ short_price_data = <<>>
    /\ facts = <<>>
    /\ decisions = <<>>
    /\ thoughts = <<>>
    /\ considerations = <<>>
    /\ added = [s \in StoreNames |-> <<>>]
    /\ pc = "idle"
    /\ response_text = <<>>
    /\ decision_id = None
    /\ returned = [call |-> "__init__", raised |-> None, value |-> None]
    /\ calls = 0
    /\ \E c \in {default_max_decisions, large_max_decisions} :
           capacity = [DefaultCapacity EXCEPT !.max_decisions = c]
    /\ procedures = DefaultProcedures
    /\ now = 1
    /\ file = Optional_None
    /\ feedback_calls = <<>>
    /\ saved = <<>>
    /\ invocations = 0
    /\ response_content = <<>>

AutoAddDecision ==
    /\ Len(added["decisions"]) < MaxAutoAdds
    /\ \E t \in Timestamps :
        LET decision == [Decision(<<"Long">>, 80, <<"uptrend">>) EXCEPT !.timestamp = t]
        IN  /\ decisions' = AutobiographicalMemory_add_decision(decisions, decision)
            /\ added' = Record("decisions", decision)
    /\ returned' = [call |-> "add_decision", raised |-> None, value |-> None]
    /\ UNCHANGED <<env, now, llm, feedback_calls, sensory_news_items, sensory_price_data,
                   short_news_items, short_price_data, facts, thoughts, considerations,
                   pc, response_text, decision_id, calls>>

AutoUpdateOutcome ==
    /\ \E id \in 0..Len(added["decisions"]), fb \in Feedbacks :
        /\ decisions' = AutobiographicalMemory_update_outcome(decisions, id, fb.outcome,
                                                             fb.reward)
        /\ decision_id' = id
    /\ returned' = [call |-> "update_outcome", raised |-> None, value |-> None]
    /\ UNCHANGED <<env, now, llm, feedback_calls, sensory_news_items, sensory_price_data,
                   short_news_items, short_price_data, facts, thoughts, considerations,
                   added, pc, response_text, calls>>

AutoGetFormatted ==
    /\ LET result == AutobiographicalMemory_get_formatted(decisions)
       IN  /\ decisions' = result.decisions
           /\ returned' = [call |-> "AutobiographicalMemory.get_formatted",
                            raised |-> None, value |-> result.output]
    /\ UNCHANGED <<env, now, llm, feedback_calls, sensory_news_items, sensory_price_data,
                   short_news_items, short_price_data, facts, thoughts, considerations,
                   added, pc, response_text, decision_id, calls>>

NextAuto ==
    \/ AutoAddDecision
    \/ AutoUpdateOutcome
    \/ AutoGetFormatted

SpecAuto == InitAuto /\ [][NextAuto]_vars

(***************************************************************************)
(* Properties of AutobiographicalMemory (SpecAuto).                        *)
(***************************************************************************)
\* the positions of the stored decisions that carry an outcome
Annotated == {i \in DOMAIN decisions : ~is_None(decisions[i].outcome)}

\* the last call was get_formatted: returned.value is the view of `decisions`
ViewReturned == returned.call = "AutobiographicalMemory.get_formatted"

\* the ways to show the (at most 3) annotated decisions of the latest
\* timestamps, latest first: sequences of distinct positions
LatestShown ==
    LET k == Min(3, Cardinality(Annotated))
    IN  {shown \in [1..k -> Annotated] :
            /\ \A a, b \in 1..k : a < b =>
                   /\ shown[a] # shown[b]
                   /\ decisions[shown[a]].timestamp >= decisions[shown[b]].timestamp
            /\ \A i \in Annotated : (\A a \in 1..k : shown[a] # i) =>
                   \A a \in 1..k : decisions[i].timestamp <= decisions[shown[a]].timestamp}

RECURSIVE SumOfRewards(_)
SumOfRewards(S) ==
    IF S = {} THEN 0
    ELSE LET i == CHOOSE j \in S : TRUE
         IN  decisions[i].reward[1] + SumOfRewards(S \ {i})

\* the view up to the line of the average: the heading and the decisions shown
ViewBody(shown) ==
    <<"## AUTOBIOGRAPHICAL MEMORY (PAST DECISIONS & OUTCOMES)", NL, NL>>
    \o (IF Len(shown) > 0
        THEN <<"### Recent Decisions and Outcomes:", NL>>
             \o format_decisions([a \in 1..Len(shown) |-> decisions[shown[a]]])
        ELSE <<>>)

\* the text is `body` followed by a line reporting the mean of the rewards
\* at the positions S
ReportsMeanOf(text, body, S) ==
    LET mean == format_2f(SumOfRewards(S), Cardinality(S))
        n == Len(body)
    IN  /\ Len(text) > n + 1 + Len(mean)
        /\ SubSeq(text, 1, n) = body
        /\ text[n + 1] = "Overall performance: Average reward "
        /\ SubSeq(text, n + 2, n + 1 + Len(mean)) = mean
        /\ text[n + 2 + Len(mean)] = " across "

Range(f) == {f[a] : a \in DOMAIN f}

\* C13, as stated: the view shows the (at most 3) annotated decisions of the
\* latest timestamps; it has no average line with fewer than 3 annotated
\* decisions, and with 3 or more the average is the mean of the rewards of
\* the decisions shown.
C13_AverageOfShown ==
    ViewReturned =>
        \E shown \in LatestShown :
            IF Cardinality(Annotated) < 3
            THEN returned.value = ViewBody(shown)
            ELSE ReportsMeanOf(returned.value, ViewBody(shown), Range(shown))

\* C13, amended: as above, but with 3 or more annotated decisions the
\* average is the mean of the rewards of all the annotated decisions stored,
\* shown or not, and the line gives their number.
C13_AverageOfAllAnnotated ==
    ViewReturned =>
        \E shown \in LatestShown :
            IF Cardinality(Annotated) < 3
            THEN returned.value = ViewBody(shown)
            ELSE /\ ReportsMeanOf(returned.value, ViewBody(shown), Annotated)
                 /\ returned.value[Len(returned.value) - 2] =
                        ToString(Cardinality(Annotated))

\* the view of four annotated decisions was returned, the one not shown
\* having another reward than the three shown
C13_Witness ==
    /\ ViewReturned
    /\ Cardinality(Annotated) >= 4
    /\ \E shown \in LatestShown :
           format_2f(SumOfRewards(Range(shown)), 3)
               # format_2f(SumOfRewards(Annotated), Cardinality(Annotated))

(***************************************************************************)
(* update_with_news and update_with_prices.  The items are objects the     *)
(* caller made: an object is its record together with its identity, id.    *)
(***************************************************************************)
MaxItems == 2             \* items in the list of one update_with_news / update_with_prices call

\* the object of identity k whose fields are those of `record`
Object(record, k) ==
    [f \in DOMAIN record \cup {"id"} |-> IF f = "id" THEN k ELSE record[f]]

\* the loop, were an item added to Sensory Memory only
RECURSIVE update_with_news_sensory_only(_, _)
update_with_news_sensory_only(memory, news_items) ==
    IF news_items = <<>> THEN memory
    ELSE update_with_news_sensory_only(
             [memory EXCEPT !.sensory = SensoryMemory_add_news(@, Head(news_items))],
             Tail(news_items))

\* update_with_news, lines 220-224: each item is added to the sensory and
\* to the short-term news list; memory is the pair of the two lists
RECURSIVE update_with_news(_, _)
update_with_news(memory, news_items) ==
    IF news_items = <<>> THEN memory
    ELSE update_with_news(
             [sensory |-> SensoryMemory_add_news(memory.sensory, Head(news_items)),
              short |-> ShortTermMemory_add_news(memory.short, Head(news_items))],
             Tail(news_items))

\* update_with_prices, lines 230-234
RECURSIVE update_with_prices(_, _)
update_with_prices(memory, price_data) ==
    IF price_data = <<>> THEN memory
    ELSE update_with_prices(
             [sensory |-> SensoryMemory_add_price(memory.sensory, Head(price_data)),
              short |-> ShortTermMemory_add_price(memory.short, Head(price_data))],
             Tail(price_data))

\* the lists of at most MaxItems new objects with records of the set `items`;
\* `made` objects of the kind exist already
NewObjects(items, made) ==
    UNION {{[k \in 1..n |-> Object(list[k], made + k)] : list \in [1..n -> items]} :
              n \in 0..MaxItems}

\* update_with_news is called with the list news_items
update_with_news_call(news_items) ==
    /\ pc = "idle"
    /\ calls < MaxCalls
    /\ calls' = calls + 1
    /\ LET memory == update_with_news([sensory |-> sensory_news_items,
                                       short |-> short_news_items], news_items)
       IN  /\ sensory_news_items' = memory.sensory
           /\ short_news_items' = memory.short
           /\ added' = [added EXCEPT !["sensory_news_items"] = @ \o news_items,
                                      !["short_news_items"] = @ \o news_items]
    /\ returned' = [call |-> "update_with_news", raised |-> None, value |-> None]
    /\ UNCHANGED <<env, now, llm, feedback_calls, sensory_price_data, short_price_data, facts,
                   decisions, thoughts, considerations, pc, response_text, decision_id>>

\* update_with_prices is called with the list price_data
update_with_prices_call(price_data) ==
    /\ pc = "idle"
    /\ calls < MaxCalls
    /\ calls' = calls + 1
    /\ LET memory == update_with_prices([sensory |-> sensory_price_data,
                                         short |-> short_price_data], price_data)
       IN  /\ sensory_price_data' = memory.sensory
           /\ short_price_data' = memory.short
           /\ added' = [added EXCEPT !["sensory_price_data"] = @ \o price_data,
                                      !["short_price_data"] = @ \o price_data]
    /\ returned' = [call |-> "update_with_prices", raised |-> None, value |-> None]
    /\ UNCHANGED <<env, now, llm, feedback_calls, sensory_news_items, short_news_items, facts,
                   decisions, thoughts, considerations, pc, response_text, decision_id>>

UpdateWithNews ==
    /\ pc = "idle"
    /\ \E news_items \in NewObjects(NewsItems, Len(added["sensory_news_items"])) :
        update_with_news_call(news_items)

UpdateWithPrices ==
    /\ pc = "idle"
    /\ \E price_data \in NewObjects(PriceItems, Len(added["sensory_price_data"])) :
        update_with_prices_call(price_data)

(***************************************************************************)
(* SpecIngest: update_with_news and update_with_prices calls together with *)
(* decision and feedback cycles, at most MaxCalls calls in all.  The LLM   *)
(* fails, and the cycle makes no record, or returns the one reply text of  *)
(* which a Decision, or a Fact and a Consideration, is made.               *)
(***************************************************************************)
FeeFactReply ==
    JoinLines(<< <<"NEW FACT:", SP, "fees", SP, "matter">>, <<"CATEGORY:", SP, "risk">>,
                 <<"CONFIDENCE:", SP, "0.9">> >>)

IngestRecommendationReply ==
    /\ pc = "recommending"
    /\ recommendation_reply(UptrendReply)

IngestProcessFeedback ==
    /\ pc = "idle"
    /\ \E id \in 0..Len(added["decisions"]) : process_feedback_call(id, <<"profit">>, 100)

IngestFeedbackReply ==
    /\ pc = "learning"
    /\ feedback_reply(FeeFactReply)

NextIngest ==
    \/ UpdateWithNews
    \/ UpdateWithPrices
    \/ MakeRecommendation
    \/ AnalysisReply
    \/ IngestRecommendationReply
    \/ IngestProcessFeedback
    \/ IngestFeedbackReply
    \/ LlmFails

SpecIngest == InitStores /\ [][NextIngest]_vars

\* the objects a store holds, each by its type and identity
SensoryObjects ==
    {<<"NewsItem", sensory_news_items[i].id>> : i \in DOMAIN sensory_news_items}
    \cup {<<"PriceData", sensory_price_data[i].id>> : i \in DOMAIN sensory_price_data}

ShortTermObjects ==
    {<<"NewsItem", short_news_items[i].id>> : i \in DOMAIN short_news_items}
    \cup {<<"PriceData", short_price_data[i].id>> : i \in DOMAIN short_price_data}

LongTermObjects == {<<"Fact", facts[i].fact_id>> : i \in DOMAIN facts}

AutobiographicalObjects == {<<"Decision", decisions[i].decision_id>> : i \in DOMAIN decisions}

WorkingObjects == {<<"Thought", thoughts[i].thought_id>> : i \in DOMAIN thoughts}

ProspectiveObjects ==
    {<<"Consideration", considerations[i].consideration_id>> : i \in DOMAIN considerations}

\* no object of one of the sets is in another of them
PairwiseDisjoint(sets) ==
    \A a, b \in DOMAIN sets : a # b => sets[a] \cap sets[b] = {}

\* C17, as stated: no record is held by more than one store at a time, and
\* Decisions are held by Autobiographical Memory only.
C17_NoRecordInTwoStores ==
    /\ PairwiseDisjoint(<<SensoryObjects, ShortTermObjects, LongTermObjects,
                          AutobiographicalObjects, WorkingObjects, ProspectiveObjects>>)
    /\ \A o \in SensoryObjects \cup ShortTermObjects \cup LongTermObjects
                 \cup WorkingObjects \cup ProspectiveObjects : o[1] # "Decision"

\* the two lists are the last records of one sequence of n items, each
\* within its capacity: the shorter one is the tail of the longer one
SameItems(sensory, short, n, max_short) ==
    /\ Len(sensory) = Min(n, max_size)
    /\ Len(short) = Min(n, max_short)
    /\ LET m == Min(Len(sensory), Len(short))
       IN  LastN(sensory, m) = LastN(short, m)

\* C17, amended: every NewsItem and PriceObservation passed to
\* update_with_news or update_with_prices is held by Sensory Memory and by
\* Short-Term Memory, the same object in both, while it is within the
\* capacity of each; no other record is held by two stores, and Decisions
\* are held by Autobiographical Memory only.
C17_OnlyItemsInTwoStores ==
    /\ PairwiseDisjoint(<<SensoryObjects \cup ShortTermObjects, LongTermObjects,
                          AutobiographicalObjects, WorkingObjects, ProspectiveObjects>>)
    /\ \A o \in SensoryObjects \cup ShortTermObjects \cup LongTermObjects
                 \cup WorkingObjects \cup ProspectiveObjects : o[1] # "Decision"
    /\ SameItems(sensory_news_items, short_news_items,
                 Len(added["sensory_news_items"]), max_news)
    /\ SameItems(sensory_price_data, short_price_data,
                 Len(added["sensory_price_data"]), max_prices)

\* after an update_with_news call and a decision cycle: a NewsItem is held
\* by Sensory and by Short-Term Memory, and a Decision is stored
C17_Witness ==
    /\ \E o \in SensoryObjects \cap ShortTermObjects : o[1] = "NewsItem"
    /\ decisions # <<>>

(***************************************************************************)
(* save_memory and load_memory.  The file holds what pickle.dump wrote: a  *)
(* mapping from the seven keys to the store objects, each store object its *)
(* attributes by value.                                                    *)
(***************************************************************************)
\* __init__, lines 33-39: the seven stores freshly constructed
fresh_memory ==
    [sensory_memory |-> [news_items |-> <<>>, price_data |-> <<>>,
                         max_size |-> default_max_size],
     short_term_memory |-> [news_items |-> <<>>, price_data |-> <<>>,
                            max_news |-> default_max_news,
                            max_prices |-> default_max_prices],
     procedural_memory |-> [procedures |-> DefaultProcedures],
     long_term_memory |-> [facts |-> <<>>, max_facts |-> default_max_facts],
     autobiographical_memory |-> [decisions |-> <<>>,
                                  max_decisions |-> default_max_decisions],
     working_memory |-> [thoughts |-> <<>>, max_thoughts |-> default_max_thoughts],
     prospective_memory |-> [considerations |-> <<>>,
                             max_considerations |-> default_max_considerations]]

\* the mapping, were the prospective store left out of it
memory_data_without_prospective_memory ==
    [sensory_memory |-> [news_items |-> sensory_news_items,
                         price_data |-> sensory_price_data, max_size |-> max_size],
     short_term_memory |-> [news_items |-> short_news_items,
                            price_data |-> short_price_data,
                            max_news |-> max_news, max_prices |-> max_prices],
     procedural_memory |-> [procedures |-> procedures],
     long_term_memory |-> [facts |-> facts, max_facts |-> max_facts],
     autobiographical_memory |-> [decisions |-> decisions,
                                  max_decisions |-> max_decisions],
     working_memory |-> [thoughts |-> thoughts, max_thoughts |-> max_thoughts]]

\* save_memory, lines 240-248: the mapping that is pickled
memory_data ==
    [sensory_memory |-> [news_items |-> sensory_news_items,
                         price_data |-> sensory_price_data, max_size |-> max_size],
     short_term_memory |-> [news_items |-> short_news_items,
                            price_data |-> short_price_data,
                            max_news |-> max_news, max_prices |-> max_prices],
     procedural_memory |-> [procedures |-> procedures],
     long_term_memory |-> [facts |-> facts, max_facts |-> max_facts],
     autobiographical_memory |-> [decisions |-> decisions,
                                  max_decisions |-> max_decisions],
     working_memory |-> [thoughts |-> thoughts, max_thoughts |-> max_thoughts],
     prospective_memory |-> [considerations |-> considerations,
                             max_considerations |-> max_considerations]]

\* dict.get(key, default)
get(mapping, key, default) ==
    IF key \in DOMAIN mapping THEN mapping[key] ELSE default

\* os.path.exists(self.memory_filepath)
os_path_exists == ~is_None(file)

\* __init__ with load_memory, lines 253-269: the seven stores of the new
\* agent, self being fresh_memory before the call
load_memory ==
    IF os_path_exists
    THEN [sensory_memory |-> get(file[1], "sensory_memory", fresh_memory.sensory_memory),
          short_term_memory |->
              get(file[1], "short_term_memory", fresh_memory.short_term_memory),
          procedural_memory |->
              get(file[1], "procedural_memory", fresh_memory.procedural_memory),
          long_term_memory |-> get(file[1], "long_term_memory", fresh_memory.long_term_memory),
          autobiographical_memory |->
              get(file[1], "autobiographical_memory", fresh_memory.autobiographical_memory),
          working_memory |-> get(file[1], "working_memory", fresh_memory.working_memory),
          prospective_memory |->
              get(file[1], "prospective_memory", fresh_memory.prospective_memory)]
    ELSE fresh_memory

\* the store attributes sn, sp, ... are those of the store objects of self
HasStores(self, sn, sp, tn, tp, f, d, t, c, cap, proc) ==
    /\ sn = self.sensory_memory.news_items
    /\ sp = self.sensory_memory.price_data
    /\ tn = self.short_term_memory.news_items
    /\ tp = self.short_term_memory.price_data
    /\ f = self.long_term_memory.facts
    /\ d = self.autobiographical_memory.decisions
    /\ t = self.working_memory.thoughts
    /\ c = self.prospective_memory.considerations
    /\ cap = [max_size |-> self.sensory_memory.max_size,
              max_news |-> self.short_term_memory.max_news,
              max_prices |-> self.short_term_memory.max_prices,
              max_facts |-> self.long_term_memory.max_facts,
              max_decisions |-> self.autobiographical_memory.max_decisions,
              max_thoughts |-> self.working_memory.max_thoughts,
              max_considerations |-> self.prospective_memory.max_considerations]
    /\ proc = self.procedural_memory.procedures

\* save_memory
save_memory ==
    /\ pc = "idle"
    /\ file' = <<memory_data>>
    /\ saved' = <<stores, capacity, procedures>>
    /\ returned' = [call |-> "save_memory", raised |-> None, value |-> None]
    /\ UNCHANGED <<stores, capacity, procedures, added, now, llm, feedback_calls, pc,
                   response_text, decision_id, calls>>

\* the process ends and a new one constructs its agent: LLMAgent.__init__
new_agent ==
    /\ HasStores(load_memory, sensory_news_items', sensory_price_data', short_news_items',
                 short_price_data', facts', decisions', thoughts', considerations',
                 capacity', procedures')
    /\ pc' = "idle"
    /\ response_text' = <<>>
    /\ decision_id' = None
    /\ returned' = [call |-> "__init__", raised |-> None, value |-> None]
    /\ UNCHANGED <<file, saved, added, now, llm, feedback_calls, calls>>

(***************************************************************************)
(* SpecPersist: agents of successive processes over one memory file.  At   *)
(* the start the file is missing, or was written by an earlier run or an   *)
(* older format: some of its keys absent, its stores of other capacities.  *)
(***************************************************************************)
MaxPersistCalls == 2      \* update_with_news / update_with_prices calls in one run of SpecPersist

\* the stores an earlier run pickled: one record in each list
OldMemory ==
    [sensory_memory |-> [news_items |-> <<Object(NewsItem(1, <<"news">>), 0)>>,
                         price_data |-> <<Object(PriceData(1, <<"BTC">>, 100), 0)>>,
                         max_size |-> default_max_size + 1],
     short_term_memory |-> [news_items |-> <<Object(NewsItem(1, <<"news">>), 0)>>,
                            price_data |-> <<Object(PriceData(1, <<"BTC">>, 100), 0)>>,
                            max_news |-> default_max_news + 1,
                            max_prices |-> default_max_prices + 1],
     procedural_memory |-> [procedures |-> <<"p1", "p2">>],
     long_term_memory |->
         [facts |-> <<[Fact(<<"fees", SP, "matter">>, <<"Feedback on decision", 0>>,
                            90, <<"risk">>) EXCEPT !.fact_id = 0]>>,
          max_facts |-> default_max_facts + 1],
     autobiographical_memory |->
         [decisions |-> <<[Decision(<<"Long">>, 80, <<"uptrend">>)
                              EXCEPT !.decision_id = 0, !.timestamp = 0]>>,
          max_decisions |-> default_max_decisions + 1],
     working_memory |-> [thoughts |-> <<[Thought(<<"analysis">>) EXCEPT !.thought_id = 0]>>,
                         max_thoughts |-> default_max_thoughts + 1],
     prospective_memory |->
         [considerations |-> <<[Consideration(<<"fees">>) EXCEPT !.consideration_id = 0]>>,
          max_considerations |-> default_max_considerations + 1]]

Keys == DOMAIN fresh_memory

\* the keys an initial file has: all, all but one, or none
KeySets == {Keys, {}} \cup {Keys \ {key} : key \in Keys}

InitPersist ==
    /\ added = [s \in StoreNames |-> <<>>]
    /\ now = 1
    /\ \/ file = Optional_None
       \/ \E K \in KeySets : file = <<[key \in K |-> OldMemory[key]]>>
    /\ HasStores(load_memory, sensory_news_items, sensory_price_data, short_news_items,
                 short_price_data, facts, decisions, thoughts, considerations,
                 capacity, procedures)
    /\ pc = "idle"
    /\ response_text = <<>>
    /\ decision_id = None
    /\ returned = [call |-> "__init__", raised |-> None, value |-> None]
    /\ calls = 0
    /\ feedback_calls = <<>>
    /\ saved = <<>>
    /\ invocations = 0
    /\ response_content = <<>>

PersistUpdateWithNews ==
    /\ calls < MaxPersistCalls
    /\ update_with_news_call(
           <<Object(NewsItem(1, <<"news">>), Len(added["sensory_news_items"]) + 1)>>)

PersistUpdateWithPrices ==
    /\ calls < MaxPersistCalls
    /\ update_with_prices_call(
           <<Object(PriceData(1, <<"BTC">>, 100), Len(added["sensory_price_data"]) + 1)>>)

SaveMemory == save_memory

NewAgent == new_agent

NextPersist ==
    \/ PersistUpdateWithNews
    \/ PersistUpdateWithPrices
    \/ SaveMemory
    \/ NewAgent

SpecPersist == InitPersist /\ [][NextPersist]_vars

\* the stores, capacities and procedures of the agent are those of `self`
AgentHolds(self) ==
    HasStores(self, sensory_news_items, sensory_price_data, short_news_items,
              short_price_data, facts, decisions, thoughts, considerations,
              capacity, procedures)

\* the store under `key` is as freshly constructed
FreshStore(key) ==
    \/ key = "sensory_memory"
          /\ sensory_news_items = <<>> /\ sensory_price_data = <<>>
          /\ max_size = default_max_size
    \/ key = "short_term_memory"
          /\ short_news_items = <<>> /\ short_price_data = <<>>
          /\ max_news = default_max_news /\ max_prices = default_max_prices
    \/ key = "procedural_memory" /\ procedures = DefaultProcedures
    \/ key = "long_term_memory" /\ facts = <<>> /\ max_facts = default_max_facts
    \/ key = "autobiographical_memory"
          /\ decisions = <<>> /\ max_decisions = default_max_decisions
    \/ key = "working_memory" /\ thoughts = <<>> /\ max_thoughts = default_max_thoughts
    \/ key = "prospective_memory"
          /\ considerations = <<>> /\ max_considerations = default_max_considerations

\* C14: an agent constructed after a save_memory call holds, in all seven
\* stores, the records, their order and the capacities that were saved; a
\* store whose key the file lacks is as freshly constructed; with no file
\* all seven stores are as freshly constructed; the construction raises
\* nothing.
C14_SaveLoadRoundTrip ==
    [][returned'.call = "__init__" =>
         /\ returned'.raised = None
         /\ saved # <<>> => <<stores, capacity, procedures>>' = saved
         /\ IF os_path_exists
            THEN \A key \in Keys \ DOMAIN file[1] : FreshStore(key)'
            ELSE \A key \in Keys : FreshStore(key)'
      ]_vars

\* a new agent was constructed after a save: it holds what was saved, a news
\* item added before the save and the records of the earlier run among it
C14_Witness ==
    /\ returned.call = "__init__"
    /\ saved # <<>>
    /\ <<stores, capacity, procedures>> = saved
    /\ decisions # <<>>
    /\ Len(sensory_news_items) = 2
    /\ capacity # DefaultCapacity

(***************************************************************************)
(* Failing invocations (SpecAgent).                                        *)
(***************************************************************************)
\* the ids of the decisions stored
DecisionIds == {decisions[i].decision_id : i \in DOMAIN decisions}

\* the step leaves a cycle unfinished, or ends it with the failure of an
\* invocation handed to the caller
CycleRunsOrFails ==
    \/ pc' # "idle"
    \/ pc # "idle" /\ pc' = "idle" /\ returned'.raised = "LLMError"

\* C15: up to and including the failure of an invocation, which the caller
\* gets as an exception, a decision cycle adds no Decision to Autobiographical
\* Memory and a feedback cycle adds no Fact to Long-Term Memory and no
\* Consideration to Prospective Memory.
C15_NothingAddedBeforeReply ==
    [][CycleRunsOrFails =>
         /\ added'["decisions"] = added["decisions"]
         /\ DecisionIds' = DecisionIds
         /\ Len(decisions') = Len(decisions)
         /\ added'["facts"] = added["facts"]
         /\ facts' = facts
         /\ added'["considerations"] = added["considerations"]
         /\ considerations' = considerations
         /\ pc' = "idle" => returned'.value = None
      ]_vars

\* a feedback cycle for a stored decision has ended with the failure of its
\* invocation: the outcome is written, no Fact and no Consideration exists
C15_Witness ==
    /\ pc = "idle"
    /\ returned.call = "process_feedback"
    /\ returned.raised = "LLMError"
    /\ \E i \in DOMAIN decisions : ~is_None(decisions[i].outcome)
    /\ facts = <<>>
    /\ considerations = <<>>

(***************************************************************************)
(* update_outcome (SpecAuto).                                              *)
(***************************************************************************)
\* C16: update_outcome raises nothing and leaves the number and the order
\* of the decisions, every decision of another id, and the recommendation,
\* confidence, reasoning, timestamp and id of the decision of the given id
\* as they were; when no stored decision has the id, because none ever had
\* or because it was evicted, the store is left as it was.
C16_UpdateOutcomeFrame ==
    [][returned'.call = "update_outcome" =>
         LET id == decision_id'
         IN  /\ returned'.raised = None
             /\ Len(decisions') = Len(decisions)
             /\ \A i \in DOMAIN decisions :
                    /\ decisions'[i].recommendation = decisions[i].recommendation
                    /\ decisions'[i].confidence = decisions[i].confidence
                    /\ decisions'[i].reasoning = decisions[i].reasoning
                    /\ decisions'[i].timestamp = decisions[i].timestamp
                    /\ decisions'[i].decision_id = decisions[i].decision_id
                    /\ decisions[i].decision_id # id => decisions'[i] = decisions[i]
             /\ id \notin DecisionIds => decisions' = decisions
      ]_vars

\* update_outcome was called with the id of a decision that was evicted
C16_Witness ==
    /\ returned.call = "update_outcome"
    /\ decision_id \in 1..Len(added["decisions"])
    /\ decision_id \notin DecisionIds
    /\ Len(decisions) = max_decisions

(***************************************************************************)
(* Outcome and reward of the decisions (SpecAgent).                        *)
(***************************************************************************)
\* C18: every Decision in Autobiographical Memory has outcome and reward
\* both unset or both set.
C18_OutcomeAndRewardTogether ==
    \A i \in DOMAIN decisions :
        is_None(decisions[i].outcome) <=> is_None(decisions[i].reward)

\* one stored Decision has outcome and reward set, another has neither
C18_Witness ==
    /\ \E i \in DOMAIN decisions :
           ~is_None(decisions[i].outcome) /\ ~is_None(decisions[i].reward)
    /\ \E i \in DOMAIN decisions :
           is_None(decisions[i].outcome) /\ is_None(decisions[i].reward)

\* the process_feedback calls made so far for the decision id, by position
FeedbackCallsFor(id) ==
    {k \in DOMAIN feedback_calls : feedback_calls[k].decision_id = id}

\* C20: no process_feedback call is rejected, whatever the Decision carries
\* already: a stored Decision carries the outcome and the reward of the last
\* process_feedback call made for its id, and none before the first.
C20_LastFeedbackWins ==
    /\ returned.raised \in {None, "LLMError"}
    /\ \A i \in DOMAIN decisions :
          LET ks == FeedbackCallsFor(decisions[i].decision_id)
          IN  IF ks = {}
              THEN is_None(decisions[i].outcome) /\ is_None(decisions[i].reward)
              ELSE /\ decisions[i].outcome = <<feedback_calls[Last(ks)].outcome>>
                   /\ decisions[i].reward = <<feedback_calls[Last(ks)].reward>>

\* two process_feedback calls were made for one stored Decision, with
\* different outcomes: it carries those of the second
C20_Witness ==
    \E i \in DOMAIN decisions :
        LET ks == FeedbackCallsFor(decisions[i].decision_id)
        IN  /\ Cardinality(ks) = 2
            /\ \E k \in ks : feedback_calls[k].outcome # feedback_calls[Last(ks)].outcome
            /\ decisions[i].outcome = <<feedback_calls[Last(ks)].outcome>>

(***************************************************************************)
(* get_formatted of the other six stores and _build_full_prompt.  Each     *)
(* operator gives the text returned and the lists of the store as the call *)
(* leaves them.  A date is formatted to one token, a price is in           *)
(* hundredths; the optional fields of a PriceData are None.                *)
(***************************************************************************)
\* item.date.strftime('%Y-%m-%d %H:%M')
strftime(date) == ToString(date)

RECURSIVE format_news(_)
format_news(list) ==
    IF list = <<>> THEN <<>>
    ELSE <<"- ", strftime(Head(list).date), ": ">> \o Head(list).text \o <<NL>>
         \o format_news(Tail(list))

RECURSIVE format_prices(_)
format_prices(list) ==
    IF list = <<>> THEN <<>>
    ELSE <<"- ", strftime(Head(list).date), ": ">> \o Head(list).asset \o <<" at $">>
         \o format_2f(Head(list).price, 1) \o <<NL>> \o format_prices(Tail(list))

\* SensoryMemory.get_formatted
SensoryMemory_get_formatted(news_items, price_data) ==
    [output |-> <<"## SENSORY MEMORY (CURRENT MARKET CONDITIONS)", NL>>
                \o <<NL, "### Latest News:", NL>> \o format_news(news_items)
                \o <<NL, "### Latest Prices:", NL>> \o format_prices(price_data),
     news_items |-> news_items,
     price_data |-> price_data]

\* ShortTermMemory.get_formatted: close_7, close_30 and close_90 are None
ShortTermMemory_get_formatted(news_items, price_data) ==
    [output |-> <<"## SHORT-TERM MEMORY (RECENT MARKET HISTORY)", NL>>
                \o (IF price_data # <<>> THEN <<NL, "### Price Statistics:", NL>> ELSE <<>>)
                \o <<NL, "### Recent News Summary:", NL>>
                \o format_news(LastN(news_items, Min(5, Len(news_items)))),
     news_items |-> news_items,
     price_data |-> price_data]

\* ProceduralMemory.get_formatted
ProceduralMemory_get_formatted(procedure_list) ==
    LET RECURSIVE numbered(_)
        numbered(i) ==
            IF i > Len(procedure_list) THEN <<>>
            ELSE <<ToString(i), ". ", procedure_list[i], NL>> \o numbered(i + 1)
    IN  [output |-> <<"## PROCEDURAL MEMORY (HOW TO ANALYZE DATA)", NL, NL>> \o numbered(1),
         procedures |-> procedure_list]

\* facts.sort(key=lambda x: x.confidence, reverse=True) is stable
RECURSIVE InsertByConfidenceReverse(_, _)
InsertByConfidenceReverse(sorted, x) ==
    IF sorted = <<>> THEN <<x>>
    ELSE IF sorted[Len(sorted)].confidence >= x.confidence THEN Append(sorted, x)
    ELSE Append(InsertByConfidenceReverse(SubSeq(sorted, 1, Len(sorted) - 1), x),
                sorted[Len(sorted)])

RECURSIVE SortByConfidenceReverse(_)
SortByConfidenceReverse(list) ==
    IF list = <<>> THEN <<>>
    ELSE InsertByConfidenceReverse(
             SortByConfidenceReverse(SubSeq(list, 1, Len(list) - 1)), list[Len(list)])

\* the keys of the dict categories, in the order of their insertion
RECURSIVE category_keys(_)
category_keys(fact_list) ==
    IF fact_list = <<>> THEN <<>>
    ELSE LET keys == category_keys(SubSeq(fact_list, 1, Len(fact_list) - 1))
             category == fact_list[Len(fact_list)].category
         IN  IF \E k \in DOMAIN keys : keys[k] = category THEN keys
             ELSE Append(keys, category)

\* lines 144-146: the facts of one category; int(confidence * 100) is the
\* confidence in hundredths
RECURSIVE format_facts(_)
format_facts(list) ==
    IF list = <<>> THEN <<>>
    ELSE <<"- ">> \o Head(list).fact
         \o <<" (Confidence: ", ToString(Head(list).confidence), "%)", NL>>
         \o format_facts(Tail(list))

\* lines 137-146: the loop over categories.items()
RECURSIVE format_categories(_, _)
format_categories(fact_list, keys) ==
    IF keys = <<>> THEN <<>>
    ELSE LET group == SelectSeq(fact_list, LAMBDA f : f.category = Head(keys))
             sorted == SortByConfidenceReverse(group)
             top_facts == SubSeq(sorted, 1, Min(3, Len(sorted)))
         IN  <<NL, "#### ">> \o Head(keys) \o <<":", NL>> \o format_facts(top_facts)
             \o format_categories(fact_list, Tail(keys))

\* get_formatted, were self.facts sorted instead of the list of a category
LongTermMemory_get_formatted_sorts_facts(fact_list) ==
    [output |-> <<"## LONG-TERM MEMORY (MARKET KNOWLEDGE)", NL, NL,
                  "### Important Facts:", NL>>
                \o format_categories(fact_list, category_keys(fact_list)),
     facts |-> SortByConfidenceReverse(fact_list)]

\* LongTermMemory.get_formatted: the lists sorted are those of the dict
\* categories, new ones
LongTermMemory_get_formatted(fact_list) ==
    [output |-> <<"## LONG-TERM MEMORY (MARKET KNOWLEDGE)", NL, NL,
                  "### Important Facts:", NL>>
                \o format_categories(fact_list, category_keys(fact_list)),
     facts |-> fact_list]

RECURSIVE format_thoughts(_)
format_thoughts(list) ==
    IF list = <<>> THEN <<>>
    ELSE Head(list).content \o <<NL, NL>> \o format_thoughts(Tail(list))

\* WorkingMemory.get_formatted
WorkingMemory_get_formatted(thought_list) ==
    [output |-> <<"## WORKING MEMORY (CURRENT ANALYSIS)", NL, NL>>
                \o (IF thought_list = <<>>
                    THEN <<"No current analysis in progress.", NL>>
                    ELSE <<"### Current Thought Process:", NL>>
                         \o format_thoughts(thought_list)),
     thoughts |-> thought_list]

RECURSIVE format_considerations(_)
format_considerations(list) ==
    IF list = <<>> THEN <<>>
    ELSE <<"- ">> \o Head(list).text \o <<NL>> \o format_considerations(Tail(list))

\* ProspectiveMemory.get_formatted
ProspectiveMemory_get_formatted(consideration_list) ==
    [output |-> <<"## PROSPECTIVE MEMORY (FUTURE CONSIDERATIONS)", NL, NL>>
                \o (IF consideration_list = <<>>
                    THEN <<"No specific future considerations noted.", NL>>
                    ELSE <<"### Important Aspects to Consider:", NL>>
                         \o format_considerations(consideration_list)),
     considerations |-> consideration_list]

\* "\n\n".join(parts)
RECURSIVE join(_)
join(parts) ==
    IF Len(parts) = 1 THEN parts[1]
    ELSE parts[1] \o <<NL, NL>> \o join(Tail(parts))

\* _build_full_prompt: the prompt and the lists of the seven stores as the
\* seven get_formatted calls leave them
build_full_prompt(query) ==
    LET sensory == SensoryMemory_get_formatted(sensory_news_items, sensory_price_data)
        short == ShortTermMemory_get_formatted(short_news_items, short_price_data)
        procedural == ProceduralMemory_get_formatted(procedures)
        long == LongTermMemory_get_formatted(facts)
        autobiographical == AutobiographicalMemory_get_formatted(decisions)
        working == WorkingMemory_get_formatted(thoughts)
        prospective == ProspectiveMemory_get_formatted(considerations)
    IN  [output |-> join(<< <<"system_prompt">>, sensory.output, short.output,
                            procedural.output, long.output, autobiographical.output,
                            working.output, prospective.output,
                            <<NL, "## NEW QUERY", NL>> \o query
                            \o <<NL, NL, "## RESPONSE", NL,
                                 "Let me think through this step by step:">> >>),
         sensory_news_items |-> sensory.news_items,
         sensory_price_data |-> sensory.price_data,
         short_news_items |-> short.news_items,
         short_price_data |-> short.price_data,
         procedures |-> procedural.procedures,
         facts |-> long.facts,
         decisions |-> autobiographical.decisions,
         thoughts |-> working.thoughts,
         considerations |-> prospective.considerations]

(***************************************************************************)
(* SpecFormat: the agent in any of a set of memory states, under calls of  *)
(* the seven get_formatted methods and of _build_full_prompt.              *)
(***************************************************************************)
\* the record with the fields of `fields` and the field `id` of value k
WithId(fields, id, k) ==
    [f \in DOMAIN fields \cup {id} |-> IF f = id THEN k ELSE fields[f]]

\* the fields of the facts of a memory state
FactFields ==
    <<[fact |-> <<"fees">>, source |-> <<"feedback">>, confidence |-> 50,
       category |-> <<"risk">>],
      [fact |-> <<"fees">>, source |-> <<"feedback">>, confidence |-> 90,
       category |-> <<"risk">>],
      [fact |-> <<"fees">>, source |-> <<"feedback">>, confidence |-> 50,
       category |-> <<"general">>]>>

\* the fields of the decisions of a memory state
DecisionFields ==
    <<[recommendation |-> <<"Long">>, confidence |-> 80, reasoning |-> <<"uptrend">>,
       timestamp |-> 1, outcome |-> Optional_None, reward |-> Optional_None],
      [recommendation |-> <<"Long">>, confidence |-> 80, reasoning |-> <<"uptrend">>,
       timestamp |-> 1, outcome |-> <<<<"profit">>>>, reward |-> <<100>>],
      [recommendation |-> <<"Long">>, confidence |-> 80, reasoning |-> <<"uptrend">>,
       timestamp |-> 2, outcome |-> <<<<"profit">>>>, reward |-> <<100>>]>>

InitFormat ==
    /\ \E k \in 0..default_max_facts : \E choice \in [1..k -> DOMAIN FactFields] :
           facts = [i \in 1..k |-> WithId(FactFields[choice[i]], "fact_id", i)]
    /\ \E k \in 0..default_max_decisions : \E choice \in [1..k -> DOMAIN DecisionFields] :
           decisions = [i \in 1..k |-> WithId(DecisionFields[choice[i]], "decision_id", i)]
    /\ \E n \in {0, 1} :
        /\ sensory_news_items = [i \in 1..n |-> Object(NewsItem(1, <<"news">>), i)]
        /\ sensory_price_data = [i \in 1..n |-> Object(PriceData(1, <<"BTC">>, 100), i)]
        /\ short_news_items = sensory_news_items
        /\ short_price_data = sensory_price_data
        /\ thoughts = [i \in 1..n |-> [content |-> <<"analysis">>, thought_id |-> i]]
        /\ considerations = [i \in 1..n |-> [text |-> <<"fees">>, consideration_id |-> i]]
    /\ added = [s \in StoreNames |->
                  CASE s = "sensory_news_items" -> sensory_news_items
                    [] s = "sensory_price_data" -> sensory_price_data
                    [] s = "short_news_items" -> short_news_items
                    [] s = "short_price_data" -> short_price_data
                    [] s = "facts" -> facts
                    [] s = "decisions" -> decisions
                    [] s = "thoughts" -> thoughts
                    [] s = "considerations" -> considerations]
    /\ pc = "idle"
    /\ response_text = <<>>
    /\ decision_id = None
    /\ returned = [call |-> "__init__", raised |-> None, value |-> None]
    /\ calls = 0
    /\ capacity = DefaultCapacity
    /\ procedures = DefaultProcedures
    /\ now = 2
    /\ file = Optional_None
    /\ feedback_calls = <<>>
    /\ saved = <<>>
    /\ invocations = 0
    /\ response_content = <<>>

SensoryGetFormatted ==
    /\ LET result == SensoryMemory_get_formatted(sensory_news_items, sensory_price_data)
       IN  /\ sensory_news_items' = result.news_items
           /\ sensory_price_data' = result.price_data
           /\ returned' = [call |-> "SensoryMemory.get_formatted", raised |-> None,
                            value |-> result.output]
    /\ UNCHANGED <<short_news_items, short_price_data, facts, decisions, thoughts,
                   considerations, procedures, capacity, file, saved, added, now, llm,
                   feedback_calls, pc, response_text, decision_id, calls>>

ShortTermGetFormatted ==
    /\ LET result == ShortTermMemory_get_formatted(short_news_items, short_price_data)
       IN  /\ short_news_items' = result.news_items
           /\ short_price_data' = result.price_data
           /\ returned' = [call |-> "ShortTermMemory.get_formatted", raised |-> None,
                            value |-> result.output]
    /\ UNCHANGED <<sensory_news_items, sensory_price_data, facts, decisions, thoughts,
                   considerations, procedures, capacity, file, saved, added, now, llm,
                   feedback_calls, pc, response_text, decision_id, calls>>

ProceduralGetFormatted ==
    /\ LET result == ProceduralMemory_get_formatted(procedures)
       IN  /\ procedures' = result.procedures
           /\ returned' = [call |-> "ProceduralMemory.get_formatted", raised |-> None,
                            value |-> result.output]
    /\ UNCHANGED <<sensory_news_items, sensory_price_data, short_news_items, short_price_data,
                   facts, decisions, thoughts, considerations, capacity, file, saved, added,
                   now, llm, feedback_calls, pc, response_text, decision_id, calls>>

LongTermGetFormatted ==
    /\ LET result == LongTermMemory_get_formatted(facts)
       IN  /\ facts' = result.facts
           /\ returned' = [call |-> "LongTermMemory.get_formatted", raised |-> None,
                            value |-> result.output]
    /\ UNCHANGED <<sensory_news_items, sensory_price_data, short_news_items, short_price_data,
                   decisions, thoughts, considerations, procedures, capacity, file, saved,
                   added, now, llm, feedback_calls, pc, response_text, decision_id, calls>>

WorkingGetFormatted ==
    /\ LET result == WorkingMemory_get_formatted(thoughts)
       IN  /\ thoughts' = result.thoughts
           /\ returned' = [call |-> "WorkingMemory.get_formatted", raised |-> None,
                            value |-> result.output]
    /\ UNCHANGED <<sensory_news_items, sensory_price_data, short_news_items, short_price_data,
                   facts, decisions, considerations, procedures, capacity, file, saved, added,
                   now, llm, feedback_calls, pc, response_text, decision_id, calls>>

ProspectiveGetFormatted ==
    /\ LET result == ProspectiveMemory_get_formatted(considerations)
       IN  /\ considerations' = result.considerations
           /\ returned' = [call |-> "ProspectiveMemory.get_formatted", raised |-> None,
                            value |-> result.output]
    /\ UNCHANGED <<sensory_news_items, sensory_price_data, short_news_items, short_price_data,
                   facts, decisions, thoughts, procedures, capacity, file, saved, added, now, llm,
                   feedback_calls, pc, response_text, decision_id, calls>>

BuildFullPrompt ==
    /\ LET result == build_full_prompt(<<"query">>)
       IN  /\ sensory_news_items' = result.sensory_news_items
           /\ sensory_price_data' = result.sensory_price_data
           /\ short_news_items' = result.short_news_items
           /\ short_price_data' = result.short_price_data
           /\ facts' = result.facts
           /\ decisions' = result.decisions
           /\ thoughts' = result.thoughts
           /\ considerations' = result.considerations
           /\ procedures' = result.procedures
           /\ returned' = [call |-> "_build_full_prompt", raised |-> None,
                            value |-> result.output]
    /\ UNCHANGED <<capacity, file, saved, added, now, llm, feedback_calls, pc, response_text,
                   decision_id, calls>>

NextFormat ==
    \/ SensoryGetFormatted
    \/ ShortTermGetFormatted
    \/ ProceduralGetFormatted
    \/ LongTermGetFormatted
    \/ AutoGetFormatted
    \/ WorkingGetFormatted
    \/ ProspectiveGetFormatted
    \/ BuildFullPrompt

SpecFormat == InitFormat /\ [][NextFormat]_vars

\* the calls that format
FormatCalls ==
    {"SensoryMemory.get_formatted", "ShortTermMemory.get_formatted",
     "ProceduralMemory.get_formatted", "LongTermMemory.get_formatted",
     "AutobiographicalMemory.get_formatted", "WorkingMemory.get_formatted",
     "ProspectiveMemory.get_formatted", "_build_full_prompt"}

\* C19: a get_formatted call on any of the seven stores, and a
\* _build_full_prompt call, leaves the records of every store and their
\* order as they were.
C19_FormattingMutatesNothing ==
    [][returned'.call \in FormatCalls =>
         /\ stores' = stores
         /\ procedures' = procedures
         /\ capacity' = capacity
      ]_vars

\* a prompt was built from facts of one category stored with the lower
\* confidence first and from annotated decisions stored oldest first: the
\* views order them the other way round
C19_Witness ==
    /\ returned.call = "_build_full_prompt"
    /\ \E i, j \in DOMAIN facts :
           /\ i < j
           /\ facts[i].category = facts[j].category
           /\ facts[i].confidence < facts[j].confidence
    /\ \E i, j \in Annotated : i < j /\ decisions[i].timestamp < decisions[j].timestamp

(***************************************************************************)
(* SpecCycle: decision cycles of an agent whose Working Memory holds, at   *)
(* the start, the thoughts of earlier add_thought calls (none, or up to    *)
(* its capacity).  The first invocation returns any of AnalysisReplies or  *)
(* fails, the second one returns UptrendReply or fails.                    *)
(***************************************************************************)
AnalysisReplies == {<<"analysis">>, <<"prices", SP, "rise">>}

\* the thoughts n earlier add_thought calls left
EarlierThoughts(n) == [k \in 1..n |-> [content |-> <<"earlier">>, thought_id |-> k]]

InitCycle ==
    /\ sensory_news_items = <<>>
    /\ sensory_price_data = <<>>
    /\ short_news_items = <<>>
    /\ short_price_data = <<>>
    /\ facts = <<>>
    /\ decisions = <<>>
    /\ capacity = DefaultCapacity
    /\ \E n \in 0..default_max_thoughts :
        /\ thoughts = EarlierThoughts(n)
        /\ added = [s \in StoreNames |-> IF s = "thoughts" THEN EarlierThoughts(n) ELSE <<>>]
    /\ considerations = <<>>
    /\ pc = "idle"
    /\ response_text = <<>>
    /\ decision_id = None
    /\ returned = [call |-> "__init__", raised |-> None, value |-> None]
    /\ calls = 0
    /\ procedures = DefaultProcedures
    /\ now = 1
    /\ file = Optional_None
    /\ feedback_calls = <<>>
    /\ saved = <<>>
    /\ invocations = 0
    /\ response_content = <<>>

CycleAnalysisReply ==
    /\ pc = "analyzing"
    /\ \E content \in AnalysisReplies : analysis_reply(content)

CycleRecommendationReply ==
    /\ pc = "recommending"
    /\ recommendation_reply(UptrendReply)

NextCycle ==
    \/ MakeRecommendation
    \/ CycleAnalysisReply
    \/ CycleRecommendationReply
    \/ LlmFails

SpecCycle == InitCycle /\ [][NextCycle]_vars

\* Working Memory holds one Thought and its content is the first reply
HoldsFirstReply == Len(thoughts) = 1 /\ thoughts[1].content = response_content

\* the last call was a decision cycle and it returned its Decision
CycleCompleted ==
    pc = "idle" /\ returned.call = "make_recommendation" /\ returned.raised = None

\* a step of a decision cycle is one of: the call (clear, first invocation),
\* the first reply (the Thought, second invocation), the second reply (parse,
\* the Decision), or the failure of an invocation
CycleStepInOrder ==
    /\ pc' # pc =>
          \/ pc = "idle" /\ pc' = "analyzing" /\ thoughts' = <<>> /\ invocations' = 1
          \/ pc = "analyzing" /\ pc' = "recommending" /\ invocations' = 2
          \/ pc \in {"analyzing", "recommending"} /\ pc' = "idle"
    /\ added'["thoughts"] # added["thoughts"] =>
          pc = "analyzing" /\ pc' = "recommending"
    /\ added'["decisions"] # added["decisions"] =>
          /\ pc = "recommending" /\ pc' = "idle"
          /\ invocations = 2 /\ invocations' = 2
          /\ thoughts' = thoughts

\* C21: a decision cycle clears Working Memory, invokes the LLM, appends the
\* reply as a Thought, invokes the LLM again, parses and appends the Decision,
\* in this order: Working Memory is empty while the first invocation runs,
\* and holds exactly one Thought, of the first reply, while the second one runs
\* and when the cycle has ended; a completed cycle has invoked the LLM twice
\* and the Decision is appended on the second reply only.
C21_CycleOrder ==
    /\ [](pc = "analyzing" => thoughts = <<>> /\ invocations = 1)
    /\ [](pc = "recommending" => HoldsFirstReply /\ invocations = 2)
    /\ [](CycleCompleted => HoldsFirstReply /\ invocations = 2)
    /\ [][CycleStepInOrder]_vars

\* a second cycle has completed from a Working Memory that held two earlier
\* thoughts: it holds the one Thought of the second cycle's first reply
C21_Witness ==
    /\ CycleCompleted
    /\ Len(added["decisions"]) = 2
    /\ Len(added["thoughts"]) = 4
    /\ added["thoughts"][1].content = <<"earlier">>
    /\ added["thoughts"][3].content = <<"analysis">>
    /\ thoughts[1].content = <<"prices", SP, "rise">>

(***************************************************************************)
(* Which fact LongTermMemory.add_fact removes (SpecStores).                *)
(***************************************************************************)
\* the lowest confidence of a non-empty list of facts
MinConfidence(list) ==
    CHOOSE c \in {list[i].confidence : i \in DOMAIN list} :
        \A j \in DOMAIN list : c <= list[j].confidence

\* the position of the first fact of the list that has the lowest confidence
FirstLowest(list) ==
    CHOOSE i \in DOMAIN list :
        /\ list[i].confidence = MinConfidence(list)
        /\ \A j \in 1..(i - 1) : list[j].confidence # MinConfidence(list)

\* the fact the last add_fact call was given
NewFact == added["facts"][Len(added["facts"])]

\* the step is an add_fact call on a full Long-Term Memory
AddFactOverflows ==
    /\ Len(added'["facts"]) = Len(added["facts"]) + 1
    /\ Len(facts) = max_facts

\* C22: an add_fact call that overflows the capacity removes exactly one
\* fact: the first one, in the order of the list with the new fact put last,
\* that has the minimum confidence of the stored facts and the new one.  A
\* new fact that ties with the lowest stored fact stays, a stored one goes.
C22_EvictsFirstLowest ==
    [][AddFactOverflows =>
          LET appended == Append(facts, NewFact')
              removed == FirstLowest(appended)
          IN  /\ Len(facts') = max_facts
              /\ Range(facts') = {appended[i] : i \in DOMAIN appended \ {removed}}
              /\ appended[removed].confidence = MinConfidence(appended)
              /\ NewFact'.confidence = MinConfidence(facts) => removed # Len(appended)
      ]_vars

\* Long-Term Memory was full of the first max_facts facts added, the next
\* one tied with the lowest of them: it is stored, and the first added fact
\* of that confidence is not
C22_Witness ==
    /\ Len(added["facts"]) = max_facts + 1
    /\ LET stored == SubSeq(added["facts"], 1, max_facts)
       IN  /\ NewFact.confidence = MinConfidence(stored)
           /\ NewFact \in Range(facts)
           /\ stored[FirstLowest(stored)] \notin Range(facts)
           /\ \E i \in DOMAIN stored : stored[i].confidence > NewFact.confidence

(***************************************************************************)
(* SpecLearn: an agent that has made one decision and whose feedback cycle *)
(* on it is suspended in its invocation; the invocation returns any reply  *)
(* text of at most MaxLines lines over LearnLines.                         *)
(***************************************************************************)
LearnLines ==
    {<<"NEW FACT:">> \o v : v \in {<<>>, <<SP, "fees", SP, "matter">>}}
    \cup {<<"CATEGORY:">> \o v : v \in {<<>>, <<SP, "risk">>}}
    \cup {<<"CONFIDENCE:">> \o v :
        v \in {<<>>, <<SP, "0.9">>, <<SP, "0.3">>, <<SP, "high">>,
               <<SP, "CONFIDENCE:", SP, "0.8">>}}
    \cup {<<>>, <<"noted">>}

LearnReplies == Texts(LearnLines, MaxLines)

\* the Decision of the one decision cycle, with the outcome and the reward
\* that process_feedback has written
AnnotatedDecision ==
    [recommendation |-> <<"Long">>, confidence |-> 80, reasoning |-> <<"uptrend">>,
     timestamp |-> 2, decision_id |-> 1, outcome |-> << <<"profit">> >>, reward |-> <<100>>]

InitLearn ==
    /\ sensory_news_items = <<>>
    /\ sensory_price_data = <<>>
    /\ short_news_items = <<>>
    /\ short_price_data = <<>>
    /\ facts = <<>>
    /\ decisions = <<AnnotatedDecision>>
    /\ thoughts = <<[content |-> <<"analysis">>, thought_id |-> 1]>>
    /\ considerations = <<>>
    /\ added = [s \in StoreNames |->
                  IF s = "thoughts" THEN <<[content |-> <<"analysis">>, thought_id |-> 1]>>
                  ELSE IF s = "decisions"
                  THEN <<[AnnotatedDecision EXCEPT !.outcome = Optional_None,
                                                   !.reward = Optional_None]>>
                  ELSE <<>>]
    /\ pc = "learning"
    /\ response_text = UptrendReply
    /\ decision_id = 1
    /\ returned = [call |-> "make_recommendation", raised |-> None,
                   value |-> [AnnotatedDecision EXCEPT !.outcome = Optional_None,
                                                        !.reward = Optional_None]]
    /\ calls = 2
    /\ capacity = DefaultCapacity
    /\ procedures = DefaultProcedures
    /\ now = 3
    /\ file = Optional_None
    /\ feedback_calls = <<[decision_id |-> 1, outcome |-> <<"profit">>, reward |-> 100]>>
    /\ saved = <<>>
    /\ invocations = 1
    /\ response_content = <<"analysis">>

LearnReply ==
    /\ pc = "learning"
    /\ \E text \in LearnReplies : feedback_reply(text)

NextLearn == LearnReply

SpecLearn == InitLearn /\ [][NextLearn]_vars

\* the feedback cycle has ended and has added a Fact
FactAdded == pc = "idle" /\ Len(added["facts"]) = 1

\* what process_feedback reads from line i of the reply: the line with its
\* prefix removed, trimmed
LearnValueOf(prefix, i) == strip(replace(ReplyLines[i], prefix))

\* the CONFIDENCE lines of the reply whose value is a number
NumericConfidenceLines ==
    {i \in LinesWith("CONFIDENCE:") :
        /\ Len(LearnValueOf("CONFIDENCE:", i)) = 1
        /\ LearnValueOf("CONFIDENCE:", i)[1] \in Numerals}

\* C23: the Fact of a feedback cycle has category "general" when the reply
\* has no CATEGORY line; its confidence is 0.5 when no CONFIDENCE line of the
\* reply is a number, and else the number of the last CONFIDENCE line that is
\* one (a line that is no number leaves the confidence as it was); it is
\* never the 0.7 of the decision parser.
C23_FactDefaults ==
    FactAdded =>
        LET fact == added["facts"][1]
        IN  /\ returned.raised = None
            /\ LinesWith("CATEGORY:") = {} => fact.category = <<"general">>
            /\ LinesWith("CATEGORY:") # {} =>
                  fact.category = LearnValueOf("CATEGORY:", Last(LinesWith("CATEGORY:")))
            /\ fact.confidence =
                  IF NumericConfidenceLines = {} THEN 50
                  ELSE NumeralValue(
                           LearnValueOf("CONFIDENCE:", Last(NumericConfidenceLines))[1])
            /\ fact.confidence # 70

\* the reply has no CATEGORY line, and a numeric CONFIDENCE line followed by
\* one that is no number: the Fact has the number and the category general
C23_Witness ==
    /\ FactAdded
    /\ LinesWith("CATEGORY:") = {}
    /\ \E i, j \in LinesWith("CONFIDENCE:") :
          /\ i < j
          /\ LearnValueOf("CONFIDENCE:", i) = <<"0.9">>
          /\ LearnValueOf("CONFIDENCE:", j) = <<"high">>
    /\ added["facts"][1].confidence = 90
    /\ added["facts"][1].category = <<"general">>
    /\ facts = added["facts"]

(***************************************************************************)
(* SpecFeed: update_with_news and update_with_prices calls only, on an     *)
(* agent whose Sensory Memory has the default capacity or one larger than  *)
(* the capacities of Short-Term Memory.                                    *)
(***************************************************************************)
InitFeed ==
    /\ sensory_news_items = <<>>
    /\ sensory_price_data = <<>>
    /\ short_news_items = <<>>
    /\ short_price_data = <<>>
    /\ facts = <<>>
    /\ decisions = <<>>
    /\ thoughts = <<>>
    /\ considerations = <<>>
    /\ added = [s \in StoreNames |-> <<>>]
    /\ pc = "idle"
    /\ response_text = <<>>
    /\ decision_id = None
    /\ returned = [call |-> "__init__", raised |-> None, value |-> None]
    /\ calls = 0
    /\ capacity \in {DefaultCapacity,
                      [DefaultCapacity EXCEPT !.max_size = default_max_news + 1]}
    /\ procedures = DefaultProcedures
    /\ now = 1
    /\ file = Optional_None
    /\ feedback_calls = <<>>
    /\ saved = <<>>
    /\ invocations = 0
    /\ response_content = <<>>

FeedNews ==
    /\ pc = "idle"
    /\ \E news_items \in NewObjects({NewsItem(1, <<"news">>)},
                                    Len(added["sensory_news_items"])) :
        update_with_news_call(news_items)

FeedPrices ==
    /\ pc = "idle"
    /\ \E price_data \in NewObjects({PriceData(1, <<"BTC">>, 100)},
                                    Len(added["sensory_price_data"])) :
        update_with_prices_call(price_data)

NextFeed == FeedNews \/ FeedPrices

SpecFeed == InitFeed /\ [][NextFeed]_vars

\* list a is the end of list b
Suffix(a, b) == Len(a) <= Len(b) /\ a = LastN(b, Len(a))

\* C24: with a Sensory capacity not larger than the Short-Term capacities,
\* after any update_with_news and update_with_prices calls the Sensory news
\* list is a suffix of the Short-Term news list and the Sensory price list a
\* suffix of the Short-Term price list; both end with the same record.
C24_SensoryIsSuffixOfShortTerm ==
    (max_size <= max_news /\ max_size <= max_prices) =>
        /\ Suffix(sensory_news_items, short_news_items)
        /\ Suffix(sensory_price_data, short_price_data)
        /\ sensory_news_items # <<>> =>
              sensory_news_items[Len(sensory_news_items)]
                  = short_news_items[Len(short_news_items)]
        /\ sensory_price_data # <<>> =>
              sensory_price_data[Len(sensory_price_data)]
                  = short_price_data[Len(short_price_data)]

\* both news lists have overflowed and the Sensory one is the shorter
C24_Witness ==
    /\ max_size <= max_news
    /\ Len(added["short_news_items"]) > max_news
    /\ Len(sensory_news_items) = max_size
    /\ Len(short_news_items) = max_news
    /\ Len(sensory_news_items) < Len(short_news_items)
    /\ sensory_price_data # <<>>

(***************************************************************************)
(* SpecFull: feedback cycles of an agent that has made one decision and    *)
(* whose Long-Term Memory is full: it holds max_facts facts of confidence  *)
(* 0.5 or 0.9 in the order they were added.  The invocation fails or       *)
(* returns one of FullReplies.                                             *)
(***************************************************************************)
NoiseReply ==
    JoinLines(<< <<"NEW FACT:", SP, "noise">>, <<"CONFIDENCE:", SP, "0.3">> >>)

FullReplies ==
    {<<>>,
     NoiseReply,
     JoinLines(<< <<"NEW FACT:", SP, "fees", SP, "matter">>, <<"CONFIDENCE:", SP, "0.8">> >>)}

\* the facts of earlier add_fact calls, of the confidences c[1], c[2], ...
StoredFacts(c) ==
    [k \in DOMAIN c |->
        [fact |-> <<"f">>, source |-> <<"test">>, confidence |-> c[k],
         category |-> <<"general">>, fact_id |-> k]]

InitFull ==
    /\ sensory_news_items = <<>>
    /\ sensory_price_data = <<>>
    /\ short_news_items = <<>>
    /\ short_price_data = <<>>
    /\ \E c \in [1..default_max_facts -> {50, 90}] :
        /\ facts = StoredFacts(c)
        /\ added = [s \in StoreNames |->
                      IF s = "facts" THEN StoredFacts(c)
                      ELSE IF s = "thoughts"
                      THEN <<[content |-> <<"analysis">>, thought_id |-> 1]>>
                      ELSE IF s = "decisions"
                      THEN <<[AnnotatedDecision EXCEPT !.outcome = Optional_None,
                                                       !.reward = Optional_None]>>
                      ELSE <<>>]
    /\ decisions = <<[AnnotatedDecision EXCEPT !.outcome = Optional_None,
                                               !.reward = Optional_None]>>
    /\ thoughts = <<[content |-> <<"analysis">>, thought_id |-> 1]>>
    /\ considerations = <<>>
    /\ pc = "idle"
    /\ response_text = UptrendReply
    /\ decision_id = None
    /\ returned = [call |-> "make_recommendation", raised |-> None,
                   value |-> [AnnotatedDecision EXCEPT !.outcome = Optional_None,
                                                        !.reward = Optional_None]]
    /\ calls = 1
    /\ capacity = DefaultCapacity
    /\ procedures = DefaultProcedures
    /\ now = 2
    /\ file = Optional_None
    /\ feedback_calls = <<>>
    /\ saved = <<>>
    /\ invocations = 2
    /\ response_content = <<"analysis">>

FullProcessFeedback ==
    /\ pc = "idle"
    /\ \E id \in 0..Len(added["decisions"]) : process_feedback_call(id, <<"profit">>, 100)

FullFeedbackReply ==
    /\ pc = "learning"
    /\ \E text \in FullReplies : feedback_reply(text)

NextFull ==
    \/ FullProcessFeedback
    \/ FullFeedbackReply
    \/ LlmFails

SpecFull == InitFull /\ [][NextFull]_vars

\* the step is the end of a feedback cycle that has extracted a fact, Long-Term
\* Memory being full and the confidence of the fact lower than every stored one
ExtractsLowestOnFull ==
    /\ pc = "learning" /\ pc' = "idle"
    /\ Len(added'["facts"]) = Len(added["facts"]) + 1
    /\ Len(facts) = max_facts
    /\ \A i \in DOMAIN facts : NewFact'.confidence < facts[i].confidence

\* the text add_consideration is given for the fact statement of the cycle
ConsiderationOf(id, statement) ==
    <<"Consider the outcome of similar situations to decision", id, statement>>

\* C25: a feedback cycle on a full Long-Term Memory that extracts a fact of
\* a confidence lower than every stored one leaves the set of stored facts as
\* it was, the new fact being the one removed, and still adds the
\* Consideration of that fact to Prospective Memory.
C25_LowestNewFactEvicted ==
    [][ExtractsLowestOnFull =>
          /\ Range(facts') = Range(facts)
          /\ NewFact' \notin Range(facts')
          /\ Len(added'["considerations"]) = Len(added["considerations"]) + 1
          /\ considerations' # <<>>
          /\ considerations'[Len(considerations')].text
                 = ConsiderationOf(decision_id, NewFact'.fact)
      ]_vars

\* Prospective Memory holds the consideration of a fact that Long-Term Memory
\* does not hold, and never held after the cycle that extracted it
C25_Witness ==
    /\ pc = "idle"
    /\ \E i \in DOMAIN considerations : considerations[i].text[3] = <<"noise">>
    /\ \A i \in DOMAIN facts : facts[i].fact # <<"noise">>
    /\ Len(facts) = max_facts

(***************************************************************************)
(* The feedback cycle whose invocation fails (SpecAgent).                  *)
(***************************************************************************)
\* the last call was a feedback cycle and its invocation raised
FeedbackFailed ==
    pc = "idle" /\ returned.call = "process_feedback" /\ returned.raised = "LLMError"

\* the stored Decision of the id of the last process_feedback call, if there
\* is one, carries the outcome and the reward of that call
LastFeedbackWritten ==
    LET feedback == feedback_calls[Len(feedback_calls)]
    IN  \A i \in DOMAIN decisions :
            decisions[i].decision_id = feedback.decision_id =>
                /\ decisions[i].outcome = <<feedback.outcome>>
                /\ decisions[i].reward = <<feedback.reward>>

\* C26: process_feedback has written the outcome and the reward into the
\* matching Decision when it invokes the LLM; a failing invocation leaves
\* them written, changes no Decision and adds no Fact and no Consideration.
C26_AnnotationSurvivesFailure ==
    /\ [](pc = "learning" => LastFeedbackWritten)
    /\ [](FeedbackFailed => LastFeedbackWritten)
    /\ [][(pc = "learning" /\ returned'.raised = "LLMError") =>
              UNCHANGED <<decisions, facts, considerations, added>>]_vars

\* the feedback cycle on a stored Decision failed: the Decision carries the
\* outcome, and no Fact and no Consideration was ever added
C26_Witness ==
    /\ FeedbackFailed
    /\ \E i \in DOMAIN decisions :
          /\ decisions[i].decision_id = feedback_calls[Len(feedback_calls)].decision_id
          /\ decisions[i].outcome = << <<"loss">> >>
          /\ decisions[i].reward = <<-100>>
    /\ added["facts"] = <<>>
    /\ added["considerations"] = <<>>

(***************************************************************************)
(* SpecEvicted: feedback cycles of an agent whose Autobiographical Memory, *)
(* loaded from the memory file, holds the last max_decisions of the        *)
(* max_decisions + 1 decisions made so far: the first one is evicted.      *)
(* process_feedback is called with the id of any decision ever made or     *)
(* with the id 0 that no decision has.                                     *)
(***************************************************************************)
TwoFactLinesReply == JoinLines(<< <<"NEW FACT:", SP, "trend">>, <<"NEW FACT:">> >>)

EvictedReplies == {<<>>, FeeFactReply, TwoFactLinesReply}

\* the decisions of n earlier decision cycles
EarlierDecisions(n) ==
    [k \in 1..n |->
        [recommendation |-> <<"Long">>, confidence |-> 80, reasoning |-> <<"uptrend">>,
         timestamp |-> k + 1, decision_id |-> k,
         outcome |-> Optional_None, reward |-> Optional_None]]

InitEvicted ==
    /\ sensory_news_items = <<>>
    /\ sensory_price_data = <<>>
    /\ short_news_items = <<>>
    /\ short_price_data = <<>>
    /\ facts = <<>>
    /\ decisions = LastN(EarlierDecisions(default_max_decisions + 1), default_max_decisions)
    /\ thoughts = <<>>
    /\ considerations = <<>>
    /\ added = [s \in StoreNames |->
                  IF s = "decisions" THEN EarlierDecisions(default_max_decisions + 1)
                  ELSE <<>>]
    /\ pc = "idle"
    /\ response_text = <<>>
    /\ decision_id = None
    /\ returned = [call |-> "__init__", raised |-> None, value |-> None]
    /\ calls = 0
    /\ capacity = DefaultCapacity
    /\ procedures = DefaultProcedures
    /\ now = default_max_decisions + 2
    /\ file = Optional_None
    /\ feedback_calls = <<>>
    /\ saved = <<>>
    /\ invocations = 0
    /\ response_content = <<>>

EvictedProcessFeedback ==
    /\ pc = "idle"
    /\ \E id \in 0..Len(added["decisions"]) : process_feedback_call(id, <<"profit">>, 100)

EvictedFeedbackReply ==
    /\ pc = "learning"
    /\ \E text \in EvictedReplies : feedback_reply(text)

NextEvicted ==
    \/ EvictedProcessFeedback
    \/ EvictedFeedbackReply
    \/ LlmFails

SpecEvicted == InitEvicted /\ [][NextEvicted]_vars

\* the step is a process_feedback call with an id that no stored Decision has
UnmatchedCall ==
    /\ pc = "idle"
    /\ Len(feedback_calls') = Len(feedback_calls) + 1
    /\ feedback_calls'[Len(feedback_calls')].decision_id \notin DecisionIds

\* the step is the end of a feedback cycle, on a reply, whose id no stored
\* Decision has
UnmatchedCompletes == FeedbackCompletes /\ decision_id \notin DecisionIds

\* the Fact and the Consideration of the statement are added and stored
StoresFactAndConsideration(statement) ==
    /\ AddsFactAndConsideration
    /\ NewFact'.fact = statement
    /\ Len(facts) < max_facts => NewFact' \in Range(facts')
    /\ considerations' # <<>>
    /\ considerations'[Len(considerations')].text = ConsiderationOf(decision_id, statement)

\* C27, as stated: a process_feedback call whose id no stored Decision has
\* annotates nothing and still invokes the LLM once; when the reply has a
\* NEW FACT line with a non-empty statement a Fact and a Consideration are
\* added.
C27_UnmatchedAddsOnSomeStatement ==
    [][/\ UnmatchedCall => pc' = "learning" /\ invocations' = 1 /\ decisions' = decisions
       /\ UnmatchedCompletes =>
             /\ invocations' = 1
             /\ decisions' = decisions
             /\ (\E i \in FactLines(response_text') :
                     StatementOf(response_text', i) # <<>>) => AddsFactAndConsideration
      ]_vars

\* C27, amended: a process_feedback call whose id no stored Decision has
\* (unknown, or evicted) annotates nothing and still invokes the LLM once;
\* when the last NEW FACT line of the reply, with every NEW FACT: removed and
\* trimmed, is non-empty, the Fact and the Consideration of that statement
\* are added.
C27_UnmatchedAddsOnLastStatement ==
    [][/\ UnmatchedCall => pc' = "learning" /\ invocations' = 1 /\ decisions' = decisions
       /\ UnmatchedCompletes =>
             LET text == response_text'
                 stated == /\ FactLines(text) # {}
                           /\ StatementWithoutPrefixes(text, Last(FactLines(text))) # <<>>
             IN  /\ invocations' = 1
                 /\ decisions' = decisions
                 /\ stated => StoresFactAndConsideration(
                                  StatementWithoutPrefixes(text, Last(FactLines(text))))
      ]_vars

\* a feedback cycle on the id of the evicted decision has ended: the Fact and
\* the Consideration are stored and no Decision is annotated
C27_Witness ==
    /\ pc = "idle"
    /\ returned.call = "process_feedback"
    /\ returned.raised = None
    /\ invocations = 1
    /\ Len(feedback_calls) = 1
    /\ feedback_calls[1].decision_id = 1
    /\ 1 \notin DecisionIds
    /\ Len(facts) = 1
    /\ Len(considerations) = 1
    /\ \A i \in DOMAIN decisions : is_None(decisions[i].outcome)

=============================================================================
